---- MODULE Spec2Model ----
(***************************************************************************)
(* A model of the expression compiler (Expressionista) of the query        *)
(* engine: a query graph is built by the graph builder, translate()        *)
(* consumes it and emits an expression tree, and the interpreter later     *)
(* calls the Func closures embedded in that tree.                          *)
(***************************************************************************)
EXTENDS Integers, Sequences, FiniteSets, TLC

VARIABLES
    nodes,          \* QueryGraph: node contents, indexed by NodeRef (node.id())
    edges,          \* QueryGraph: edges in edge-index order, [src, dst, content]
    result_nodes,   \* QueryGraph: the set of result nodes
    pc,             \* "build" | "translated" | "called"
    translated,     \* the outcome of Expressionista::translate, and the graph it left
    called,         \* the outcome of calling an emitted Func closure
    ctx,            \* the Context of the SQL query builder
    op,             \* the operation of the SQL builder or connector under way, its inputs
    ret,            \* what that operation returned
    log             \* what the operation did to its collaborators, in order

graph_vars == <<nodes, edges, result_nodes, pc, translated, called>>
sql_vars == <<ctx, op, ret, log>>
vars == <<nodes, edges, result_nodes, pc, translated, called, ctx, op, ret, log>>

(***************************************************************************)
(* Bounds of the model.                                                    *)
(***************************************************************************)
NodeRefs == {1, 2, 3, 4}
MaxEdges == 4
MaxResultNodes == 2
MaxFan == 3
MaxLen == 2
MaxVal == 3

(***************************************************************************)
(* Results: Ok(v), Err(e) (an InterpretationResult error) or a panic.      *)
(***************************************************************************)
Ok(v) == [tag |-> "Ok", val |-> v]
Err(e) == [tag |-> "Err", msg |-> e]
Panic(m) == [tag |-> "Panic", msg |-> m]
IsOk(r) == r.tag = "Ok"

(***************************************************************************)
(* Nodes and edge contents of the query graph.                             *)
(* data stands for what the node holds (the query of a Query node, the rule *)
(* and data of an If node, the result of a Return node): the graph builder *)
(* gives every node data of its own.                                       *)
(***************************************************************************)
Node(kind, data, left, right) == [kind |-> kind, data |-> data, left |-> left, right |-> right]
NoContent == Node("None", 0, <<>>, <<>>)
EmptyNode == Node("Empty", 0, <<>>, <<>>)

ComputationKinds == {"DiffLeftToRight", "DiffRightToLeft"}

\* QueryGraphDependency: the variant, its sink (consumer) and its expectation.
Dependency(dep, sink, expectation) == [dep |-> dep, sink |-> sink, expectation |-> expectation]
Then == Dependency("Then", "None", "None")
Else == Dependency("Else", "None", "None")
ExecutionOrder == Dependency("ExecutionOrder", "None", "None")
NoDependency == Dependency("None", "None", "None")

(***************************************************************************)
(* Expressions.                                                            *)
(***************************************************************************)
Sequence(seq) == [type |-> "Sequence", seq |-> seq]
Binding(name, expr) == [name |-> name, expr |-> expr]
Let(bindings, expressions) == [type |-> "Let", bindings |-> bindings, expressions |-> expressions]
Get(binding_name) == [type |-> "Get", binding_name |-> binding_name]
GetFirstNonEmpty(binding_names) == [type |-> "GetFirstNonEmpty", binding_names |-> binding_names]
QueryExpr(query) == [type |-> "Query", query |-> query]
Func(func) == [type |-> "Func", func |-> func]
IfExpr(node, then, else_) == [type |-> "If", func |-> node, then |-> then, else_ |-> else_]
Return(result) == [type |-> "Return", result |-> result]

(***************************************************************************)
(* The QueryGraph operations the compiler calls.  A graph value g is       *)
(* [nodes, edges, result_nodes, visited], with the history of the calls    *)
(* translate made on it: built (one entry per node built), folded (one     *)
(* entry per fold of result children), entered (the nodes in the order     *)
(* their build began) and plucked (the contents moved out, in order).      *)
(***************************************************************************)
Graph(ns, es, rs) ==
    [nodes |-> ns, edges |-> es, result_nodes |-> rs, visited |-> {},
     built |-> <<>>, folded |-> <<>>, entered |-> <<>>, plucked |-> <<>>]

\* The members of a set of indices, ascending.
RECURSIVE Ascending(_)
Ascending(S) ==
    IF S = {} THEN <<>>
    ELSE LET m == CHOOSE x \in S : \A y \in S : x <= y
         IN <<m>> \o Ascending(S \ {m})

incoming_edges(g, node) ==
    Ascending({e \in 1..Len(g.edges) : g.edges[e].dst = node})

outgoing_edges(g, node) ==
    Ascending({e \in 1..Len(g.edges) : g.edges[e].src = node})

edge_source(g, e) == g.edges[e].src
edge_target(g, e) == g.edges[e].dst
edge_content(g, e) == g.edges[e].content
node_content(g, node) == g.nodes[node]

root_nodes(g) ==
    Ascending({n \in 1..Len(g.nodes) : incoming_edges(g, n) = <<>>})

is_result_node(g, node) == node \in g.result_nodes

mark_visited(g, node) ==
    [g EXCEPT !.visited = @ \cup {node}, !.entered = Append(@, node)]

\* Every child taken for a direct one, whatever its other parents.
is_direct_child_always(g, parent, child) == TRUE

\* A child is direct when every other parent of it has been visited already.
is_direct_child(g, parent, child) ==
    \A e \in 1..Len(g.edges) :
        g.edges[e].dst = child =>
            (g.edges[e].src = parent \/ g.edges[e].src \in g.visited)

direct_child_pairs(g, node) ==
    LET es == Ascending({e \in 1..Len(g.edges) :
                  g.edges[e].src = node /\ is_direct_child(g, node, g.edges[e].dst)})
    IN [i \in 1..Len(es) |-> <<es[i], g.edges[es[i]].dst>>]

RECURSIVE subgraph_contains_result(_, _)
subgraph_contains_result(g, node) ==
    \/ is_result_node(g, node)
    \/ \E e \in 1..Len(g.edges) :
          g.edges[e].src = node /\ subgraph_contains_result(g, g.edges[e].dst)

\* pluck_node / pluck_edge move the content out; a second pluck finds nothing.
pluck_node(g, node) ==
    IF g.nodes[node].kind = "None"
    THEN [g |-> g, res |-> Panic("pluck_node: node content already taken")]
    ELSE [g |-> [g EXCEPT !.nodes[node] = NoContent,
                          !.plucked = Append(@, <<"node", node>>)],
          res |-> Ok(g.nodes[node])]

pluck_edge(g, e) ==
    IF g.edges[e].content = NoDependency
    THEN [g |-> g, res |-> Panic("pluck_edge: edge content already taken")]
    ELSE [g |-> [g EXCEPT !.edges[e].content = NoDependency,
                          !.plucked = Append(@, <<"edge", e>>)],
          res |-> Ok(g.edges[e].content)]

(***************************************************************************)
(* Expressionista.  Every operation returns [g, res]: the graph as the     *)
(* operation left it, and Ok(expression), Err or Panic.                    *)
(***************************************************************************)
Done(g, res) == [g |-> g, res |-> res]

\* The ? operator: an error or a panic of x ends the operation, else it goes on.
Try(x, Continue(_)) == IF IsOk(x.res) THEN Continue(x) ELSE x

\* History: build_expression returned expr for node.
Built(g, node, kind, parent_edges, child_pairs, branches, body_pairs, child_expressions, base, expr) ==
    Done([g EXCEPT !.built = Append(@,
              [node |-> node, kind |-> kind, is_result |-> node \in g.result_nodes,
               parent_edges |-> parent_edges, child_pairs |-> child_pairs,
               branches |-> branches, body_pairs |-> body_pairs,
               child_expressions |-> child_expressions, base |-> base,
               expr |-> expr])],
         Ok(expr))
NoBranches == [then |-> <<>>, else_ |-> <<>>]

\* IntoExpr with the branches of the If taken for one another.
IntoExpr_swapped(into_expr, node) ==
    CASE into_expr.for = "query" ->
            IF node.kind = "Query" THEN Ok(QueryExpr(node))
            ELSE Err("node is not a query")
      [] into_expr.for = "empty" -> Ok(Sequence(into_expr.exprs))
      [] into_expr.for = "computation" -> Ok(Func([fn |-> "diff", node |-> node]))
      [] into_expr.for = "if" ->
            IF node.kind \notin {"If", "Return"} THEN Err("node is not a flow")
            ELSE IF node.kind # "If" THEN Panic("unreachable")
            ELSE LET if_expr == IfExpr(node, into_expr.else_expr, <<into_expr.then_expr>>)
                 IN Ok(IF into_expr.child_expressions # <<>>
                       THEN Let(<<Binding(into_expr.node_id, if_expr)>>,
                                into_expr.child_expressions)
                       ELSE if_expr)
      [] into_expr.for = "return" ->
            IF node.kind \notin {"If", "Return"} THEN Err("node is not a flow")
            ELSE IF node.kind # "Return" THEN Panic("unreachable")
            ELSE Ok(Return(node.data))

\* The closures handed to transform_node as into_expr, applied to a node.
IntoExpr(into_expr, node) ==
    CASE into_expr.for = "query" ->
            IF node.kind = "Query" THEN Ok(QueryExpr(node))
            ELSE Err("node is not a query")
      [] into_expr.for = "empty" -> Ok(Sequence(into_expr.exprs))
      [] into_expr.for = "computation" -> Ok(Func([fn |-> "diff", node |-> node]))
      [] into_expr.for = "if" ->
            IF node.kind \notin {"If", "Return"} THEN Err("node is not a flow")
            ELSE IF node.kind # "If" THEN Panic("unreachable")
            ELSE LET if_expr == IfExpr(node, <<into_expr.then_expr>>, into_expr.else_expr)
                 IN Ok(IF into_expr.child_expressions # <<>>
                       THEN Let(<<Binding(into_expr.node_id, if_expr)>>,
                                into_expr.child_expressions)
                       ELSE if_expr)
      [] into_expr.for = "return" ->
            IF node.kind \notin {"If", "Return"} THEN Err("node is not a flow")
            ELSE IF node.kind # "Return" THEN Panic("unreachable")
            ELSE Ok(Return(node.data))

IsTransformer(dependency) ==
    dependency.dep \in {"DataDependency", "ProjectedDataDependency",
                        "ProjectedDataSinkDependency"}

\* Plucks every parent edge, keeping (parent binding name, dependency) of the
\* edges that carry a transformer.
RECURSIVE collect_parent_transformers(_, _)
collect_parent_transformers(g, parent_edges) ==
    IF parent_edges = <<>> THEN Done(g, Ok(<<>>))
    ELSE Try(pluck_edge(g, Head(parent_edges)), LAMBDA plucked :
         Try(collect_parent_transformers(plucked.g, Tail(parent_edges)), LAMBDA rest :
             Done(rest.g,
                  Ok((IF IsTransformer(plucked.res.val)
                      THEN <<[parent_binding_name |-> edge_source(g, Head(parent_edges)),
                              dependency |-> plucked.res.val]>>
                      ELSE <<>>) \o rest.res.val))))

\* transform_node emitting the closure for any parent edge, transformer or not.
transform_node_any_edge(g, parent_edges, node, into_expr) ==
    IF parent_edges = <<>> THEN Done(g, IntoExpr(into_expr, node))
    ELSE Try(collect_parent_transformers(g, parent_edges), LAMBDA parent_id_deps :
             Done(parent_id_deps.g,
                  Ok(Func([fn |-> "transform_node",
                           parent_id_deps |-> parent_id_deps.res.val,
                           node |-> node,
                           into_expr |-> into_expr]))))

\* transform_node turning the node into its expression at once, whatever
\* its parent edges carry.
transform_node_at_once(g, parent_edges, node, into_expr) ==
    IF parent_edges = <<>> THEN Done(g, IntoExpr(into_expr, node))
    ELSE Try(collect_parent_transformers(g, parent_edges), LAMBDA parent_id_deps :
             Done(parent_id_deps.g, IntoExpr(into_expr, node)))

transform_node(g, parent_edges, node, into_expr) ==
    IF parent_edges = <<>> THEN Done(g, IntoExpr(into_expr, node))
    ELSE Try(collect_parent_transformers(g, parent_edges), LAMBDA parent_id_deps :
             IF parent_id_deps.res.val = <<>>
             THEN Done(parent_id_deps.g, IntoExpr(into_expr, node))
             ELSE Done(parent_id_deps.g,
                       Ok(Func([fn |-> "transform_node",
                                parent_id_deps |-> parent_id_deps.res.val,
                                node |-> node,
                                into_expr |-> into_expr]))))

\* FoldBindings that leaves the last Let without its Get.
FoldBindings_no_get(bindings, n_result_nodes) ==
    IF n_result_nodes = 1
    THEN LET n == Len(bindings)
             exprs == [i \in 1..n |-> Let(<<bindings[i]>>, <<>>)]
         IN Let(Head(exprs).bindings, Head(exprs).expressions \o Tail(exprs))
    ELSE Let(bindings,
             <<GetFirstNonEmpty([i \in 1..Len(bindings) |-> bindings[i].name])>>)

\* The fold of fold_result_scopes over the bindings it has built.
FoldBindings(bindings, n_result_nodes) ==
    IF n_result_nodes = 1
    THEN LET n == Len(bindings)
             exprs == [i \in 1..n |->
                          Let(<<bindings[i]>>,
                              IF i = n THEN <<Get(bindings[i].name)>> ELSE <<>>)]
         IN Let(Head(exprs).bindings, Head(exprs).expressions \o Tail(exprs))
    ELSE Let(bindings,
             <<GetFirstNonEmpty([i \in 1..Len(bindings) |-> bindings[i].name])>>)

\* ResultSubgraphs that keeps the result children in child-pair order.
ResultSubgraphs_in_order(g, child_pairs) ==
    LET result_positions ==
            Ascending({ix \in 1..Len(child_pairs) :
                          subgraph_contains_result(g, child_pairs[ix][2])})
    IN [i \in 1..Len(result_positions) |-> child_pairs[result_positions[i]]]

\* The result children of process_children: removed from the highest position down.
ResultSubgraphs(g, child_pairs) ==
    LET result_positions ==
            Ascending({ix \in 1..Len(child_pairs) :
                          subgraph_contains_result(g, child_pairs[ix][2])})
        n == Len(result_positions)
    IN [i \in 1..n |-> child_pairs[result_positions[n + 1 - i]]]

\* What process_children leaves in child_pairs: the non-result children, in order.
RemainingChildren(g, child_pairs) ==
    LET keep == Ascending({ix \in 1..Len(child_pairs) :
                              ~subgraph_contains_result(g, child_pairs[ix][2])})
    IN [i \in 1..Len(keep) |-> child_pairs[keep[i]]]

RECURSIVE build_expression(_, _, _)
RECURSIVE build_each(_, _)

\* pairs.into_iter().map(build_expression with the node's incoming edges).collect():
\* stops at the first error.
build_each(g, child_pairs) ==
    IF child_pairs = <<>> THEN Done(g, Ok(<<>>))
    ELSE Try(build_expression(g, Head(child_pairs)[2],
                              incoming_edges(g, Head(child_pairs)[2])), LAMBDA first :
         Try(build_each(first.g, Tail(child_pairs)), LAMBDA rest :
             Done(rest.g, Ok(<<first.res.val>> \o rest.res.val))))

fold_result_scopes(g, result_subgraphs) ==
    Try(build_each(g, result_subgraphs), LAMBDA built :
        Done(built.g,
             Ok(FoldBindings([i \in 1..Len(result_subgraphs) |->
                                 Binding(result_subgraphs[i][2], built.res.val[i])],
                             Cardinality(built.g.result_nodes)))))

\* process_children that emits the fold of the result children first.
process_children_results_first(g, child_pairs) ==
    Try(build_each(g, RemainingChildren(g, child_pairs)), LAMBDA expressions :
        IF ResultSubgraphs(g, child_pairs) # <<>>
        THEN Try(fold_result_scopes(expressions.g, ResultSubgraphs(g, child_pairs)),
                 LAMBDA result_exp :
                    Done([result_exp.g EXCEPT !.folded = Append(@,
                              [child_pairs |-> child_pairs, expr |-> result_exp.res.val])],
                         Ok(<<result_exp.res.val>> \o expressions.res.val)))
        ELSE expressions)

process_children(g, child_pairs) ==
    Try(build_each(g, RemainingChildren(g, child_pairs)), LAMBDA expressions :
        IF ResultSubgraphs(g, child_pairs) # <<>>
        THEN Try(fold_result_scopes(expressions.g, ResultSubgraphs(g, child_pairs)),
                 LAMBDA result_exp :
                    Done([result_exp.g EXCEPT !.folded = Append(@,
                              [child_pairs |-> child_pairs, expr |-> result_exp.res.val])],
                         Ok(Append(expressions.res.val, result_exp.res.val))))
        ELSE expressions)

\* build_query_expression that never appends the Get of a result node.
build_query_expression_no_get(g, node, parent_edges) ==
    LET direct_children == direct_child_pairs(mark_visited(g, node), node)
    IN Try(process_children(mark_visited(g, node), direct_children),
           LAMBDA child_expressions :
       Try(pluck_node(child_expressions.g, node), LAMBDA plucked :
       Try(transform_node(plucked.g, parent_edges, plucked.res.val, [for |-> "query"]),
           LAMBDA expr :
              Built(expr.g, node, "Query", parent_edges, direct_children, NoBranches,
                    direct_children, child_expressions.res.val, expr.res.val,
                    IF child_expressions.res.val = <<>> THEN expr.res.val
                    ELSE Let(<<Binding(node, expr.res.val)>>,
                             child_expressions.res.val)))))

build_query_expression(g, node, parent_edges) ==
    LET direct_children == direct_child_pairs(mark_visited(g, node), node)
        is_result == is_result_node(g, node)
    IN Try(process_children(mark_visited(g, node), direct_children),
           LAMBDA child_expressions :
       Try(pluck_node(child_expressions.g, node), LAMBDA plucked :
       Try(transform_node(plucked.g, parent_edges, plucked.res.val, [for |-> "query"]),
           LAMBDA expr :
              Built(expr.g, node, "Query", parent_edges, direct_children, NoBranches,
                    direct_children, child_expressions.res.val, expr.res.val,
                    IF child_expressions.res.val = <<>> THEN expr.res.val
                    ELSE Let(<<Binding(node, expr.res.val)>>,
                             IF is_result
                             THEN Append(child_expressions.res.val, Get(node))
                             ELSE child_expressions.res.val)))))

build_empty_expression(g, node, parent_edges) ==
    LET child_pairs == direct_child_pairs(mark_visited(g, node), node)
    IN Try(build_each(mark_visited(g, node), child_pairs), LAMBDA exprs :
       Try(transform_node(exprs.g, parent_edges, EmptyNode,
                          [for |-> "empty", exprs |-> exprs.res.val]), LAMBDA expr :
              Built(expr.g, node, "Empty", parent_edges, child_pairs, NoBranches,
                    child_pairs, exprs.res.val, expr.res.val, expr.res.val)))

build_computation_expression(g, node, parent_edges) ==
    LET child_pairs == direct_child_pairs(mark_visited(g, node), node)
    IN Try(build_each(mark_visited(g, node), child_pairs), LAMBDA exprs :
       Try(pluck_node(exprs.g, node), LAMBDA plucked :
       Try(transform_node(plucked.g, parent_edges, plucked.res.val,
                          [for |-> "computation"]), LAMBDA expr :
              Built(expr.g, node, "Computation", parent_edges, child_pairs, NoBranches,
                    child_pairs, exprs.res.val, expr.res.val,
                    IF exprs.res.val = <<>> THEN expr.res.val
                    ELSE Let(<<Binding(node, expr.res.val)>>, exprs.res.val)))))

\* The fold of translate_if_node over the child pairs: the last Then, the last
\* Else, and every other pair in order.
IfNodeAcc(g, child_pairs) ==
    LET Pairs(deps) == Ascending({i \in 1..Len(child_pairs) :
                                     edge_content(g, child_pairs[i][1]).dep \in deps})
        Last(ixs) == IF ixs = <<>> THEN <<>> ELSE <<child_pairs[ixs[Len(ixs)]]>>
        All(ixs) == [i \in 1..Len(ixs) |-> child_pairs[ixs[i]]]
        AllDeps == {edge_content(g, child_pairs[i][1]).dep : i \in 1..Len(child_pairs)}
    IN [then |-> Last(Pairs({"Then"})),
        else_ |-> Last(Pairs({"Else"})),
        other |-> All(Pairs(AllDeps \ {"Then", "Else"}))]

\* translate_if_node and translate_return_node run with the node marked visited
\* by build_flow_expression.
translate_if_node(g, node, parent_edges) ==
    LET child_pairs == direct_child_pairs(g, node)
        if_node_info == IfNodeAcc(g, child_pairs)
    IN IF if_node_info.then = <<>>
       THEN Done(g, Panic("Expected if-node to always have a then edge to another node."))
       ELSE Try(build_each(g, if_node_info.then), LAMBDA then_expr :
            Try(build_each(then_expr.g, if_node_info.else_), LAMBDA else_expr :
            Try(process_children(else_expr.g, if_node_info.other),
                LAMBDA child_expressions :
            Try(pluck_node(child_expressions.g, node), LAMBDA plucked :
            Try(transform_node(plucked.g, parent_edges, plucked.res.val,
                               [for |-> "if",
                                then_expr |-> then_expr.res.val[1],
                                else_expr |-> else_expr.res.val,
                                child_expressions |-> child_expressions.res.val,
                                node_id |-> node]), LAMBDA expr :
                   Built(expr.g, node, "If", parent_edges, child_pairs,
                         [then |-> if_node_info.then, else_ |-> if_node_info.else_],
                         if_node_info.other, child_expressions.res.val, expr.res.val,
                         expr.res.val))))))

translate_return_node(g, node, parent_edges) ==
    LET direct_children == direct_child_pairs(g, node)
    IN Try(process_children(g, direct_children), LAMBDA child_expressions :
       Try(pluck_node(child_expressions.g, node), LAMBDA plucked :
       Try(transform_node(plucked.g, parent_edges, plucked.res.val, [for |-> "return"]),
           LAMBDA expr :
              Built(expr.g, node, "Return", parent_edges, direct_children, NoBranches,
                    direct_children, child_expressions.res.val, expr.res.val,
                    IF child_expressions.res.val = <<>> THEN expr.res.val
                    ELSE Let(<<Binding(node, expr.res.val)>>,
                             child_expressions.res.val)))))

build_flow_expression(g, node, parent_edges) ==
    IF node_content(g, node).kind = "If"
    THEN translate_if_node(mark_visited(g, node), node, parent_edges)
    ELSE translate_return_node(mark_visited(g, node), node, parent_edges)

build_expression(g, node, parent_edges) ==
    CASE node_content(g, node).kind = "None" -> Done(g, Panic("Node content was empty"))
      [] node_content(g, node).kind = "Query" ->
            build_query_expression(g, node, parent_edges)
      [] node_content(g, node).kind \in {"If", "Return"} ->
            build_flow_expression(g, node, parent_edges)
      [] node_content(g, node).kind \in ComputationKinds ->
            build_computation_expression(g, node, parent_edges)
      [] node_content(g, node).kind = "Empty" ->
            build_empty_expression(g, node, parent_edges)

\* The roots all built, whatever an earlier one returned; the first failure is
\* what comes back.
RECURSIVE build_roots_all(_, _)
build_roots_all(g, roots) ==
    IF roots = <<>> THEN Done(g, Ok(<<>>))
    ELSE IF IsOk(build_expression(g, Head(roots), <<>>).res)
    THEN Try(build_expression(g, Head(roots), <<>>), LAMBDA first :
         Try(build_roots_all(first.g, Tail(roots)), LAMBDA rest :
             Done(rest.g, Ok(<<first.res.val>> \o rest.res.val))))
    ELSE Done(build_roots_all(build_expression(g, Head(roots), <<>>).g, Tail(roots)).g,
              build_expression(g, Head(roots), <<>>).res)

\* root_nodes.into_iter().map(build_expression with no parent edges).collect()
RECURSIVE build_roots(_, _)
build_roots(g, roots) ==
    IF roots = <<>> THEN Done(g, Ok(<<>>))
    ELSE Try(build_expression(g, Head(roots), <<>>), LAMBDA first :
         Try(build_roots(first.g, Tail(roots)), LAMBDA rest :
             Done(rest.g, Ok(<<first.res.val>> \o rest.res.val))))

\* translate that builds the roots from the last to the first.
translate_roots_reversed(g) ==
    LET roots == root_nodes(g)
    IN Try(build_roots(g, [i \in 1..Len(roots) |-> roots[Len(roots) + 1 - i]]),
           LAMBDA res : Done(res.g, Ok(Sequence(res.res.val))))

translate(g) ==
    Try(build_roots(g, root_nodes(g)), LAMBDA res :
        Done(res.g, Ok(Sequence(res.res.val))))

(***************************************************************************)
(* The closures of the emitted expression, as the interpreter calls them.  *)
(***************************************************************************)
\* Every sequence that lists the members of S once each, in some order: the
\* orders in which a HashSet may yield its elements.
RECURSIVE Orders(_)
Orders(S) ==
    IF S = {} THEN {<<>>}
    ELSE UNION {{<<x>> \o rest : rest \in Orders(S \ {x})} : x \in S}

Range(s) == {s[i] : i \in 1..Len(s)}

\* DiffFunc with the two directions taken for one another.
DiffFunc_swapped(node, env) ==
    LET left == Range(node.left)
        right == Range(node.right)
    IN CASE node.kind = "DiffLeftToRight" ->
               {Ok(Return(diff)) : diff \in Orders(right \ left)}
         [] node.kind = "DiffRightToLeft" ->
               {Ok(Return(diff)) : diff \in Orders(left \ right)}
         [] OTHER -> {Panic("unreachable")}

\* The closure of build_computation_expression, which ignores its environment:
\* the possible results of one call.
DiffFunc(node, env) ==
    LET left == Range(node.left)
        right == Range(node.right)
    IN CASE node.kind = "DiffLeftToRight" ->
               {Ok(Return(diff)) : diff \in Orders(left \ right)}
         [] node.kind = "DiffRightToLeft" ->
               {Ok(Return(diff)) : diff \in Orders(right \ left)}
         [] OTHER -> {Panic("unreachable")}

\* Every Func closure of an expression tree.
RECURSIVE Funcs(_)
FuncsOfEach(exprs) == UNION {Funcs(exprs[i]) : i \in 1..Len(exprs)}
Funcs(expr) ==
    CASE expr.type = "Func" -> {expr.func}
      [] expr.type = "Sequence" -> FuncsOfEach(expr.seq)
      [] expr.type = "Let" ->
            UNION {Funcs(expr.bindings[i].expr) : i \in 1..Len(expr.bindings)}
                \cup FuncsOfEach(expr.expressions)
      [] expr.type = "If" -> FuncsOfEach(expr.then) \cup FuncsOfEach(expr.else_)
      [] OTHER -> {}

(***************************************************************************)
(* The graph builder: nodes, edges and result nodes are added to the graph *)
(* until it is handed to translate.                                        *)
(***************************************************************************)
S4Left == <<1, 2, 3>>
S4Right == <<2, 3, 4>>

NodeContents(data) ==
    {Node(kind, data, <<>>, <<>>) : kind \in {"Query", "If", "Return", "Empty"}}
        \cup {Node("DiffLeftToRight", data, S4Left, S4Right)}

EdgeContents(src_kind) ==
    {ExecutionOrder,
     Dependency("ProjectedDataSinkDependency", "ExactlyOne", "None")}
        \cup (IF src_kind = "If" THEN {Then, Else} ELSE {})

NoOutcome == Done(Graph(<<>>, <<>>, {}), Panic("not run"))
NoCall == [func |-> [fn |-> "None"], res |-> Panic("not run")]

\* No operation of the SQL builder is under way.
NoContext == [type |-> "None"]
NoOp == [name |-> "None"]
NoRet == [tag |-> "None"]
SqlIdle == ctx = NoContext /\ op = NoOp /\ ret = NoRet /\ log = <<>>

\* The environments a closure is called with: binding names to rows.
Envs == UNION {[names -> {<<>>, <<1>>}] : names \in SUBSET {1, 2}}

Init ==
    /\ nodes = <<>>
    /\ edges = <<>>
    /\ result_nodes = {}
    /\ pc = "build"
    /\ translated = NoOutcome
    /\ called = NoCall
    /\ SqlIdle

create_node(content) ==
    /\ pc = "build"
    /\ Len(nodes) < Cardinality(NodeRefs)
    /\ content.kind # "Query" => \A n \in 1..Len(nodes) : nodes[n].kind = "Query"
    /\ nodes' = Append(nodes, content)
    /\ UNCHANGED <<edges, result_nodes, pc, translated, called>>
    /\ UNCHANGED sql_vars

create_edge(src, dst, content) ==
    /\ pc = "build"
    /\ Len(edges) < MaxEdges
    /\ src < dst
    /\ edges # <<>> =>
          LET last == edges[Len(edges)]
          IN last.src < src \/ (last.src = src /\ last.dst < dst)
    /\ edges' = Append(edges, [src |-> src, dst |-> dst, content |-> content])
    /\ UNCHANGED <<nodes, result_nodes, pc, translated, called>>
    /\ UNCHANGED sql_vars

add_result_node(node) ==
    /\ pc = "build"
    /\ node \notin result_nodes
    /\ Cardinality(result_nodes) < MaxResultNodes
    /\ result_nodes' = result_nodes \cup {node}
    /\ UNCHANGED <<nodes, edges, pc, translated, called>>
    /\ UNCHANGED sql_vars

Translate ==
    /\ pc = "build"
    /\ translated' = translate(Graph(nodes, edges, result_nodes))
    /\ pc' = "translated"
    /\ UNCHANGED <<nodes, edges, result_nodes, called>>
    /\ UNCHANGED sql_vars

\* The interpreter calls one of the emitted Func closures.
CallFunc ==
    /\ pc = "translated"
    /\ IsOk(translated.res)
    /\ \E func \in Funcs(translated.res.val), env \in Envs :
          /\ func.fn = "diff"
          /\ \E res \in DiffFunc(func.node, env) : called' = [func |-> func, res |-> res]
    /\ pc' = "called"
    /\ UNCHANGED <<nodes, edges, result_nodes, translated>>
    /\ UNCHANGED sql_vars

Next ==
    \/ \E content \in NodeContents(Len(nodes) + 1) : create_node(content)
    \/ \E src \in 1..Len(nodes), dst \in 1..Len(nodes) :
          \E content \in EdgeContents(nodes[src].kind) : create_edge(src, dst, content)
    \/ \E node \in 1..Len(nodes) : add_result_node(node)
    \/ Translate
    \/ CallFunc

Spec == Init /\ [][Next]_vars

(***************************************************************************)
(* Fans: a parent with up to MaxFan children, each a leaf, a result node   *)
(* or the parent of one shared sink node.                                  *)
(***************************************************************************)
FanGraph(parent, deps, shapes, results) ==
    LET fan == Len(shapes)
        sinks == {i \in 1..fan : shapes[i] = "sink"}
        sink == fan + 2
        to_sink == Ascending(sinks)
    IN [nodes |-> <<parent>>
                    \o [i \in 1..fan |-> Node("Query", i + 1, <<>>, <<>>)]
                    \o (IF sinks = {} THEN <<>> ELSE <<Node("Query", sink, <<>>, <<>>)>>),
        edges |-> [i \in 1..fan |-> [src |-> 1, dst |-> i + 1, content |-> deps[i]]]
                    \o [i \in 1..Len(to_sink) |->
                           [src |-> to_sink[i] + 1, dst |-> sink,
                            content |-> ExecutionOrder]],
        result_nodes |-> {i + 1 : i \in {j \in 1..fan : shapes[j] = "result"}}
                           \cup (IF sinks # {} /\ "sink" \in results THEN {sink} ELSE {})
                           \cup (IF "parent" \in results THEN {1} ELSE {})]

InitFan ==
    /\ \E parent \in NodeContents(1), fan \in 1..MaxFan :
          \E deps \in [1..fan -> EdgeContents(parent.kind)],
             shapes \in [1..fan -> {"leaf", "result", "sink"}],
             results \in SUBSET {"sink", "parent"} :
                LET graph == FanGraph(parent, deps, shapes, results)
                IN /\ nodes = graph.nodes
                   /\ edges = graph.edges
                   /\ result_nodes = graph.result_nodes
    /\ pc = "build"
    /\ translated = NoOutcome
    /\ called = NoCall
    /\ SqlIdle

Run == Translate \/ CallFunc

SpecFan == InitFan /\ [][Run]_vars

(***************************************************************************)
(* A single Computation node over bounded inputs, and the S4 inputs.       *)
(***************************************************************************)
BoundedSeq(S, n) == UNION {[1..k -> S] : k \in 0..n}

DiffInputs ==
    (BoundedSeq(1..MaxVal, MaxLen) \X BoundedSeq(1..MaxVal, MaxLen))
        \cup {<<S4Left, S4Right>>}

InitDiff ==
    /\ \E kind \in ComputationKinds, input \in DiffInputs :
          nodes = <<Node(kind, 1, input[1], input[2])>>
    /\ edges = <<>>
    /\ result_nodes \in SUBSET {1}
    /\ pc = "build"
    /\ translated = NoOutcome
    /\ called = NoCall
    /\ SqlIdle

SpecDiff == InitDiff /\ [][Run]_vars

(***************************************************************************)
(* The SQL query builder: DynamicSchema, Context and table qualification.  *)
(***************************************************************************)
Some(v) == [some |-> TRUE, v |-> v]
None == [some |-> FALSE]

GraphIdle ==
    /\ nodes = <<>>
    /\ edges = <<>>
    /\ result_nodes = {}
    /\ translated = NoOutcome
    /\ called = NoCall

\* A JSON text, as its tokens.
LBrace == [t |-> "{"]
RBrace == [t |-> "}"]
LBracket == [t |-> "["]
RBracket == [t |-> "]"]
Colon == [t |-> ":"]
Comma == [t |-> ","]
Str(s) == [t |-> "str", s |-> s]
Num == [t |-> "num"]
Null == [t |-> "null"]

EmptyMap == <<>>
insert(map, k, v) == [x \in DOMAIN map \cup {k} |-> IF x = k THEN v ELSE map[x]]

\* serde_json::from_str::<HashMap<String, String>>: the members of an object
\* from position p on, each a string key and a string value.
RECURSIVE ParseMembers(_, _, _)
ParseMembers(tokens, p, map) ==
    IF p + 3 > Len(tokens) THEN Err("EOF while parsing an object")
    ELSE IF tokens[p].t # "str" THEN Err("key must be a string")
    ELSE IF tokens[p + 1].t # ":" THEN Err("expected :")
    ELSE IF tokens[p + 2].t # "str" THEN Err("invalid type: expected a string")
    ELSE IF tokens[p + 3].t = "}"
         THEN IF p + 3 = Len(tokens)
              THEN Ok(insert(map, tokens[p].s, tokens[p + 2].s))
              ELSE Err("trailing characters")
    ELSE IF tokens[p + 3].t = ","
         THEN ParseMembers(tokens, p + 4, insert(map, tokens[p].s, tokens[p + 2].s))
    ELSE Err("expected , or }")

from_json(tokens) ==
    IF tokens = <<>> THEN Err("EOF while parsing a value")
    ELSE IF tokens[1].t # "{" THEN Err("invalid type: expected a map")
    ELSE IF Len(tokens) = 1 THEN Err("EOF while parsing an object")
    ELSE IF tokens[2].t = "}"
         THEN IF Len(tokens) = 2 THEN Ok(EmptyMap) ELSE Err("trailing characters")
    ELSE ParseMembers(tokens, 2, EmptyMap)

\* DynamicSchema::from_str with the parse error unwrapped.
from_str_unwrap(s) ==
    IF ~s.some THEN Ok(EmptyMap)
    ELSE IF IsOk(from_json(s.v)) THEN from_json(s.v)
    ELSE Panic("called Result::unwrap() on an Err value")

\* DynamicSchema::from_str
from_str(s) ==
    IF ~s.some THEN Ok(EmptyMap)
    ELSE IF IsOk(from_json(s.v)) THEN from_json(s.v)
    ELSE Ok(EmptyMap)

ConnectionInfo(schema_name, sql_family, max_bind_values) ==
    [schema_name |-> schema_name, sql_family |-> sql_family,
     max_bind_values |-> max_bind_values]

\* Context::new_with_dynamic_schema
new_with_dynamic_schema(connection_info, dynamic_schema) ==
    [type |-> "Context",
     connection_info |-> connection_info,
     max_bind_values |-> Some(connection_info.max_bind_values),
     dynamic_schema |-> dynamic_schema,
     alias_counter |-> 0]

schema_name(c) == c.connection_info.schema_name
sql_family(c) == c.connection_info.sql_family

\* Context::target_schema
target_schema(c, origin_schema) ==
    IF DOMAIN c.dynamic_schema = {} THEN Some(origin_schema)
    ELSE IF origin_schema \in DOMAIN c.dynamic_schema
         THEN Some(c.dynamic_schema[origin_schema])
    ELSE None

Model(schema, db_name) == [schema_name |-> schema, db_name |-> db_name]
Table(schema, name) == [schema |-> schema, name |-> name]

\* db_name_with_schema without the fallback to the origin schema.
db_name_with_schema_no_fallback(model, c) ==
    LET schema_prefix ==
            IF model.schema_name.some /\ target_schema(c, model.schema_name.v).some
            THEN target_schema(c, model.schema_name.v)
            ELSE schema_name(c)
    IN Table(schema_prefix, model.db_name)

\* db_name_with_schema that leaves an unmapped origin schema without a prefix.
db_name_with_schema_no_prefix(model, c) ==
    LET schema_prefix ==
            IF model.schema_name.some
            THEN target_schema(c, model.schema_name.v)
            ELSE schema_name(c)
    IN Table(schema_prefix, model.db_name)

db_name_with_schema(model, c) ==
    LET schema_prefix ==
            IF model.schema_name.some
            THEN IF target_schema(c, model.schema_name.v).some
                 THEN target_schema(c, model.schema_name.v)
                 ELSE Some(model.schema_name.v)
            ELSE schema_name(c)
    IN IF schema_prefix.some
       THEN Table(Some(schema_prefix.v), model.db_name)
       ELSE Table(None, model.db_name)

\* The inputs: JSON texts, models and connections.
SchemaNames == {"public", "private"}
TargetNames == {"tenant_42", "public"}

RECURSIVE Members(_)
Members(pairs) ==
    IF pairs = <<>> THEN <<>>
    ELSE <<Str(pairs[1][1]), Colon, pairs[1][2]>>
            \o (IF Len(pairs) = 1 THEN <<>> ELSE <<Comma>>)
            \o Members(Tail(pairs))
ObjectText(pairs) == <<LBrace>> \o Members(pairs) \o <<RBrace>>

StringMapTexts ==
    {ObjectText(pairs) :
        pairs \in BoundedSeq(SchemaNames \X {Str(s) : s \in TargetNames}, MaxLen)}
OtherTexts ==
    {ObjectText(pairs) :
        pairs \in BoundedSeq(SchemaNames \X {Str("tenant_42"), Num, Null}, MaxLen)}
        \cup {<<>>, <<Null>>, <<Num>>, <<Str("public")>>, <<LBracket, RBracket>>,
              <<LBracket, Str("public"), RBracket>>, <<LBrace>>,
              <<LBrace, Str("public"), Colon, Str("tenant_42")>>,
              <<LBrace, Str("public"), Colon, Str("tenant_42"), Comma, RBrace>>,
              <<LBrace, Str("public"), Str("tenant_42"), RBrace>>,
              <<LBrace, Str("public"), Colon, LBrace, RBrace, RBrace>>,
              <<LBrace, RBrace, RBrace>>,
              <<LBrace, Str("public"), Colon, Str("tenant_42"), RBrace, Num>>}
JsonTexts == StringMapTexts \cup OtherTexts

Models == {Model(schema, "users") : schema \in {None} \cup {Some(o) : o \in SchemaNames}}
DefaultSchemas == {None, Some("main")}

InitSchema ==
    /\ GraphIdle
    /\ pc = "sql"
    /\ ctx = NoContext
    /\ \E s \in {None} \cup {Some(text) : text \in JsonTexts}, model \in Models,
          default \in DefaultSchemas :
             op = [name |-> "as_table", s |-> s, model |-> model,
                   connection_info |-> ConnectionInfo(default, "postgres", 32766)]
    /\ ret = NoRet
    /\ log = <<>>

\* DynamicSchema::from_str, then Context::new_with_dynamic_schema.
NewContext ==
    /\ pc = "sql"
    /\ op.name = "as_table"
    /\ IF IsOk(from_str(op.s))
       THEN /\ ctx' = new_with_dynamic_schema(op.connection_info, from_str(op.s).val)
            /\ pc' = "ready"
            /\ ret' = ret
       ELSE /\ ret' = from_str(op.s)
            /\ pc' = "panicked"
            /\ ctx' = ctx
    /\ UNCHANGED <<nodes, edges, result_nodes, translated, called, op, log>>

\* AsTable::as_table of the model: its table, qualified.
AsTable ==
    /\ pc = "ready"
    /\ op.name = "as_table"
    /\ ret' = Ok(db_name_with_schema(op.model, ctx))
    /\ pc' = "done"
    /\ UNCHANGED <<nodes, edges, result_nodes, translated, called, ctx, op, log>>

SpecSchema == InitSchema /\ [][NewContext \/ AsTable]_vars

(***************************************************************************)
(* Context: the alias counter, shared by the callers of one Context.       *)
(***************************************************************************)
MaxCallers == 2
MaxAliases == 4
Callers == 1..MaxCallers

\* AtomicUsize::fetch_add that only loads the counter.
fetch_add_load(counter, val) == [previous |-> counter, value |-> counter]

\* AtomicUsize::fetch_add(val, SeqCst): one atomic step.
fetch_add(counter, val) == [previous |-> counter, value |-> counter + val]

Alias(kind, n) == [kind |-> kind, n |-> n]

InitAlias ==
    /\ GraphIdle
    /\ pc = "aliasing"
    /\ ctx = new_with_dynamic_schema(ConnectionInfo(None, "postgres", 32766), EmptyMap)
    /\ op = [name |-> "aliases"]
    /\ ret = NoRet
    /\ log = <<>>

next_table_alias(caller) ==
    /\ pc = "aliasing"
    /\ ctx.alias_counter < MaxAliases
    /\ ctx' = [ctx EXCEPT !.alias_counter = fetch_add(@, 1).value]
    /\ log' = Append(log, [caller |-> caller,
                           alias |-> Alias("Table", fetch_add(ctx.alias_counter, 1).previous)])
    /\ UNCHANGED <<nodes, edges, result_nodes, pc, translated, called, op, ret>>

next_join_alias(caller) ==
    /\ pc = "aliasing"
    /\ ctx.alias_counter < MaxAliases
    /\ ctx' = [ctx EXCEPT !.alias_counter = fetch_add(@, 1).value]
    /\ log' = Append(log, [caller |-> caller,
                           alias |-> Alias("Join", fetch_add(ctx.alias_counter, 1).previous)])
    /\ UNCHANGED <<nodes, edges, result_nodes, pc, translated, called, op, ret>>

NextAlias ==
    \/ \E caller \in Callers : next_table_alias(caller)
    \/ \E caller \in Callers : next_join_alias(caller)

SpecAlias == InitAlias /\ [][NextAlias]_vars

(***************************************************************************)
(* chunked_conditions and in_conditions.                                   *)
(***************************************************************************)
PARAMETER_LIMIT == 2000
MaxColumns == 2

Min(a, b) == IF a <= b THEN a ELSE b

\* A SelectionResult: one value per column, all of them placeholders or none.
SelectionResult(id, placeholder) == [id |-> id, placeholder |-> placeholder]
as_placeholders(result, n_columns) ==
    IF result.placeholder
    THEN Some([j \in 1..n_columns |-> [field |-> j, placeholder |-> result.id]])
    ELSE None
db_values(result, n_columns) == [j \in 1..n_columns |-> <<result.id, j>>]

\* slice::chunks_exact: the chunks of full size only.
RECURSIVE chunks_exact(_, _)
chunks_exact(records, chunk_size) ==
    IF Len(records) < chunk_size THEN <<>>
    ELSE <<SubSeq(records, 1, chunk_size)>>
            \o chunks_exact(SubSeq(records, chunk_size + 1, Len(records)), chunk_size)

\* slice::chunks
RECURSIVE chunks(_, _)
chunks(records, chunk_size) ==
    IF records = <<>> THEN <<>>
    ELSE <<SubSeq(records, 1, Min(chunk_size, Len(records)))>>
            \o chunks(SubSeq(records, Min(chunk_size, Len(records)) + 1, Len(records)),
                      chunk_size)

in_conditions(columns, results, c) ==
    IF Len(results) = 1 /\ as_placeholders(results[1], Len(columns)).some
    THEN IF Min(Len(as_placeholders(results[1], Len(columns)).v), Len(columns)) = 0
         THEN Panic("should have at least one column")
         ELSE Ok([type |-> "And",
                  conditions |->
                      [j \in 1..Len(columns) |->
                          [type |-> "In", row |-> <<columns[j]>>,
                           parameterized_row |->
                               as_placeholders(results[1], Len(columns)).v[j],
                           of |-> results[1].id]]])
    ELSE Ok([type |-> "In", row |-> columns,
             values |-> [i \in 1..Len(results) |-> db_values(results[i], Len(columns))]])

\* The queries of the chunks, or the panic of the first chunk that panics.
RECURSIVE map_chunks(_, _, _)
map_chunks(columns, chunked, c) ==
    IF chunked = <<>> THEN Ok(<<>>)
    ELSE IF ~IsOk(in_conditions(columns, Head(chunked), c))
         THEN in_conditions(columns, Head(chunked), c)
    ELSE IF ~IsOk(map_chunks(columns, Tail(chunked), c))
         THEN map_chunks(columns, Tail(chunked), c)
    ELSE Ok(<<[type |-> "Query", conditions |-> in_conditions(columns, Head(chunked), c).val]>>
               \o map_chunks(columns, Tail(chunked), c).val)

chunked_conditions(columns, records, c) ==
    map_chunks(columns, chunks(records, PARAMETER_LIMIT), c)

RecordCounts == {0, 1, 2, 3, 900, 1999, 2000, 2001, 4000, 4001, 5000}
BindLimits == {1, 900, 2000, 32766}

InitChunk ==
    /\ GraphIdle
    /\ pc = "sql"
    /\ \E n \in RecordCounts, n_columns \in 1..MaxColumns, placeholder \in BOOLEAN,
          max_bind_values \in BindLimits :
             /\ op = [name |-> "chunked_conditions",
                      columns |-> [j \in 1..n_columns |-> j],
                      records |-> [i \in 1..n |-> SelectionResult(i, placeholder)]]
             /\ ctx = new_with_dynamic_schema(
                          ConnectionInfo(None, "postgres", max_bind_values), EmptyMap)
    /\ ret = NoRet
    /\ log = <<>>

ChunkedConditions ==
    /\ pc = "sql"
    /\ op.name = "chunked_conditions"
    /\ ret' = chunked_conditions(op.columns, op.records, ctx)
    /\ pc' = "done"
    /\ UNCHANGED <<nodes, edges, result_nodes, translated, called, ctx, op, log>>

SpecChunk == InitChunk /\ [][ChunkedConditions]_vars

(***************************************************************************)
(* SqlQueryBuilder::build_create_record.                                   *)
(***************************************************************************)
MaxIdFields == 2

\* V::build_template either renders the query or fails.
convert_query(query, build_template) ==
    IF build_template = "Ok"
    THEN Ok([type |-> "TemplateSql", query |-> query])
    ELSE Err("build_template")

ScalarField(name, db_name, default_expression, autoincrement) ==
    [name |-> name, db_name |-> db_name,
     default_expression |-> default_expression, autoincrement |-> autoincrement]

Placeholder(name) == [type |-> "Placeholder", name |-> name]
scalar_set(value) == [type |-> "Set", value |-> value]
has_arg_for(args, db_name) == db_name \in DOMAIN args
args_insert(args, key, value) ==
    [k \in DOMAIN args \cup {key} |-> IF k = key THEN value ELSE args[k]]

\* write::defaults_for_mysql_write_args: the fields of the identifier that have
\* no write argument and whose default is an expression the database evaluates.
RECURSIVE defaults_for_mysql_write_args(_, _)
defaults_for_mysql_write_args(id_selection, args) ==
    IF id_selection = <<>> THEN <<>>
    ELSE (IF ~has_arg_for(args, Head(id_selection).db_name)
             /\ Head(id_selection).default_expression
          THEN <<Head(id_selection)>> ELSE <<>>)
            \o defaults_for_mysql_write_args(Tail(id_selection), args)

field_placeholders_of(defaults) ==
    [i \in 1..Len(defaults) |->
        [field |-> defaults[i], ph |-> Placeholder(defaults[i].name)]]

\* The placeholders set under the fields' names instead of their database names.
RECURSIVE insert_placeholders_by_name(_, _)
insert_placeholders_by_name(args, field_placeholders) ==
    IF field_placeholders = <<>> THEN args
    ELSE insert_placeholders_by_name(
             args_insert(args, Head(field_placeholders).field.name,
                         scalar_set(Head(field_placeholders).ph)),
             Tail(field_placeholders))

RECURSIVE insert_placeholders(_, _)
insert_placeholders(args, field_placeholders) ==
    IF field_placeholders = <<>> THEN args
    ELSE insert_placeholders(
             args_insert(args, Head(field_placeholders).field.db_name,
                         scalar_set(Head(field_placeholders).ph)),
             Tail(field_placeholders))

first_autoincrement(id_selection) ==
    IF \E i \in 1..Len(id_selection) : id_selection[i].autoincrement
    THEN Some(id_selection[CHOOSE i \in 1..Len(id_selection) :
                             /\ id_selection[i].autoincrement
                             /\ \A j \in 1..(i - 1) : ~id_selection[j].autoincrement])
    ELSE None

\* WriteArgs::as_selection_result: the identifier's pairs, Null where no
\* argument is given.
as_selection_result(args, id_selection) ==
    Some([i \in 1..Len(id_selection) |->
            <<id_selection[i],
              IF has_arg_for(args, id_selection[i].db_name)
              THEN args[id_selection[i].db_name].value ELSE "Null">>])

create_record(model, args, selected_fields) ==
    [type |-> "Insert", model |-> model, args |-> args, returning |-> selected_fields]

build_create_record(c, model, args, selected_fields, build_template) ==
    LET id_selection == model.primary_identifier
        is_mysql == sql_family(c) = "mysql"
        field_placeholders ==
            field_placeholders_of(defaults_for_mysql_write_args(id_selection, args))
        query == [type |-> "Select", defaults |-> defaults_for_mysql_write_args(id_selection, args)]
        args1 == IF is_mysql /\ field_placeholders # <<>>
                 THEN insert_placeholders(args, field_placeholders)
                 ELSE args
        insert_stmt == create_record(model, args1, selected_fields)
    IN IF is_mysql /\ field_placeholders # <<>> /\ ~IsOk(convert_query(query, build_template[1]))
       THEN convert_query(query, build_template[1])
       ELSE IF ~IsOk(convert_query(insert_stmt, build_template[2]))
       THEN convert_query(insert_stmt, build_template[2])
       ELSE Ok([select_defaults |->
                   IF is_mysql /\ field_placeholders # <<>>
                   THEN Some([query |-> convert_query(query, build_template[1]).val,
                              field_placeholders |-> field_placeholders])
                   ELSE None,
                insert_query |-> convert_query(insert_stmt, build_template[2]).val,
                last_insert_id_field |->
                   IF is_mysql THEN first_autoincrement(id_selection) ELSE None,
                merge_values |->
                   IF is_mysql THEN as_selection_result(args1, id_selection).v ELSE <<>>])

SqlFamilies == {"mysql", "postgres", "sqlite", "mssql"}
IdFields ==
    [i \in 1..MaxIdFields |->
        {ScalarField(<<"id", i>>, <<"pk", i>>, d, a) : d \in BOOLEAN, a \in BOOLEAN}]
IdSelections ==
    UNION {{sel \in [1..n -> UNION {IdFields[i] : i \in 1..MaxIdFields}] :
               \A i \in 1..n : sel[i] \in IdFields[i]} : n \in 1..MaxIdFields}
ArgKeys == {<<"pk", 1>>, <<"title", 0>>}
WriteArgsSets == UNION {[keys -> {scalar_set(7)}] : keys \in SUBSET ArgKeys}
TemplateOutcomes == {<<"Ok", "Ok">>, <<"Err", "Ok">>, <<"Ok", "Err">>}

InitCreate ==
    /\ GraphIdle
    /\ pc = "sql"
    /\ \E family \in SqlFamilies, id_selection \in IdSelections,
          args \in WriteArgsSets, build_template \in TemplateOutcomes :
             /\ op = [name |-> "build_create_record",
                      model |-> [name |-> "Post", primary_identifier |-> id_selection],
                      args |-> args,
                      selected_fields |-> id_selection,
                      build_template |-> build_template]
             /\ ctx = new_with_dynamic_schema(ConnectionInfo(None, family, 32766), EmptyMap)
    /\ ret = NoRet
    /\ log = <<>>

BuildCreateRecord ==
    /\ pc = "sql"
    /\ op.name = "build_create_record"
    /\ ret' = build_create_record(ctx, op.model, op.args, op.selected_fields,
                                  op.build_template)
    /\ pc' = "done"
    /\ UNCHANGED <<nodes, edges, result_nodes, translated, called, ctx, op, log>>

SpecCreate == InitCreate /\ [][BuildCreateRecord]_vars

(***************************************************************************)
(* update_one_without_selection: a task that awaits the connection at      *)
(* filter_selectors and at every execute.                                  *)
(***************************************************************************)
IdFieldName == "id"

\* pick_args: the write arguments of the primary identifier's fields.
pick_args(args) == [k \in DOMAIN args \cap {IdFieldName} |-> args[k]]

\* merge_write_args: the identifiers with the written identifier values.
merge_write_args(ids, id_args) ==
    [i \in 1..Len(ids) |->
        IF IdFieldName \in DOMAIN id_args
        THEN [ids[i] EXCEPT !.id = id_args[IdFieldName].value]
        ELSE ids[i]]

\* update::update_many_from_ids_and_filter: one UPDATE per chunk of ids.
update_many_from_ids_and_filter(columns, ids, args, c) ==
    IF ids = <<>> THEN <<>>
    ELSE [u \in 1..Len(chunked_conditions(columns, ids, c).val) |->
            [type |-> "Update", args |-> args,
             conditions |-> chunked_conditions(columns, ids, c).val[u].conditions]]

SingleRecord(id) == [record |-> id, field_names |-> <<IdFieldName>>]
first_record(ids) == IF ids = <<>> THEN None ELSE Some(SingleRecord(ids[1]))

\* The point reached once the loop stands before update number frame.next.
loop_updates(frame) ==
    IF frame.next > Len(frame.updates)
    THEN [op |-> frame, pc |-> "done",
          ret |-> Ok(first_record(merge_write_args(frame.ids, frame.id_args)))]
    ELSE [op |-> frame, pc |-> "execute", ret |-> NoRet]

\* conn.execute(update).await with its result dropped.
after_execute_unchecked(frame, result) ==
    loop_updates([frame EXCEPT !.next = @ + 1])

\* conn.execute(update).await?
after_execute(frame, result) ==
    IF IsOk(result)
    THEN loop_updates([frame EXCEPT !.next = @ + 1])
    ELSE [op |-> frame, pc |-> "done", ret |-> result]

\* after_filter_selectors without the early return on empty write args.
after_filter_selectors_always_updates(frame, result, c) ==
    IF ~IsOk(result) THEN [op |-> frame, pc |-> "done", ret |-> result]
    ELSE loop_updates([frame EXCEPT
                          !.id_args = pick_args(frame.args),
                          !.ids = result.val,
                          !.updates = update_many_from_ids_and_filter(
                                          frame.columns, result.val, frame.args, c),
                          !.next = 1])

\* conn.filter_selectors(...).await? and what follows up to the next await.
after_filter_selectors(frame, result, c) ==
    IF ~IsOk(result) THEN [op |-> frame, pc |-> "done", ret |-> result]
    ELSE IF frame.args = <<>>
    THEN [op |-> [frame EXCEPT !.ids = result.val], pc |-> "done",
          ret |-> Ok(first_record(result.val))]
    ELSE loop_updates([frame EXCEPT
                          !.id_args = pick_args(frame.args),
                          !.ids = result.val,
                          !.updates = update_many_from_ids_and_filter(
                                          frame.columns, result.val, frame.args, c),
                          !.next = 1])

UpdateArgKeys == {IdFieldName, "title"}
UpdateArgs == UNION {[keys -> {scalar_set(9)}] : keys \in SUBSET UpdateArgKeys}
IdCounts == {0, 1, 2, 2001, 4001}
FilterSelectorsResults ==
    {Err("filter_selectors")}
        \cup {Ok([i \in 1..n |-> SelectionResult(i, placeholder)]) :
                 n \in IdCounts, placeholder \in BOOLEAN}
ExecuteResults == {Ok(1), Err("execute")}

InitUpdate ==
    /\ GraphIdle
    /\ pc = "filter_selectors"
    /\ \E args \in UpdateArgs, n_columns \in 1..MaxColumns :
          op = [name |-> "update_one_without_selection",
                args |-> args,
                columns |-> [j \in 1..n_columns |-> j],
                id_args |-> <<>>, ids |-> <<>>, updates |-> <<>>, next |-> 1]
    /\ ctx = new_with_dynamic_schema(ConnectionInfo(None, "mysql", 32766), EmptyMap)
    /\ ret = NoRet
    /\ log = <<>>

FilterSelectors ==
    /\ pc = "filter_selectors"
    /\ op.name = "update_one_without_selection"
    /\ \E result \in FilterSelectorsResults :
          /\ log' = Append(log, [event |-> "filter_selectors", result |-> result])
          /\ op' = after_filter_selectors(op, result, ctx).op
          /\ pc' = after_filter_selectors(op, result, ctx).pc
          /\ ret' = after_filter_selectors(op, result, ctx).ret
    /\ UNCHANGED <<nodes, edges, result_nodes, translated, called, ctx>>

Execute ==
    /\ pc = "execute"
    /\ op.name = "update_one_without_selection"
    /\ \E result \in ExecuteResults :
          /\ log' = Append(log, [event |-> "execute", update |-> op.updates[op.next],
                                 result |-> result])
          /\ op' = after_execute(op, result).op
          /\ pc' = after_execute(op, result).pc
          /\ ret' = after_execute(op, result).ret
    /\ UNCHANGED <<nodes, edges, result_nodes, translated, called, ctx>>

SpecUpdate == InitUpdate /\ [][FilterSelectors \/ Execute]_vars

(***************************************************************************)
(* update_one_with_selection, next to update_one_without_selection.        *)
(***************************************************************************)
RecordFilter(filter, selectors) == [filter |-> filter, selectors |-> selectors]

build_update_one_filter(record_filter) ==
    IF record_filter.selectors.some
    THEN [type |-> "And",
          filters |-> <<[type |-> "In", selectors |-> record_filter.selectors.v],
                        record_filter.filter>>]
    ELSE record_filter.filter

\* update::update_one_with_selection: the UPDATE .. RETURNING statement.
update_one_with_selection(record_filter, args, selected_fields) ==
    [type |-> "Update", args |-> args,
     conditions |-> build_update_one_filter(record_filter),
     returning |-> selected_fields]

\* Row 0 of a result set cannot be converted by to_sql_row.
process_result_row(row, selected_fields) ==
    IF row = 0 THEN Err("to_sql_row")
    ELSE Ok([values |-> row, fields |-> selected_fields])

\* conn.query(update).await?.into_iter().next() and the mapping of the row.
after_query(result, selected_fields) ==
    IF ~IsOk(result) THEN result
    ELSE IF result.val = <<>> THEN Ok(None)
    ELSE IF ~IsOk(process_result_row(result.val[1], selected_fields))
    THEN process_result_row(result.val[1], selected_fields)
    ELSE Ok(Some([record |-> process_result_row(result.val[1], selected_fields).val,
                  field_names |-> selected_fields]))

RecordFilters ==
    {RecordFilter([type |-> "Scalar", field |-> "title"], selectors) :
        selectors \in {None, Some(<<>>), Some(<<SelectionResult(1, FALSE)>>)}}
SelectedFields == {<<IdFieldName>>, <<IdFieldName, "title">>}
GetSingleRecordResults ==
    {Err("get_single_record"), Ok(None)}
        \cup {Ok(Some([record |-> [values |-> 1, fields |-> f], field_names |-> f])) :
                 f \in SelectedFields}
QueryResults == {Err("query"), Ok(<<>>), Ok(<<1, 2>>), Ok(<<0>>)}

\* Either function at its first await.
InitUpdateOne ==
    \/ InitUpdate
    \/ /\ GraphIdle
       /\ \E args \in UpdateArgs, record_filter \in RecordFilters,
             selected_fields \in SelectedFields :
             /\ op = [name |-> "update_one_with_selection",
                      args |-> args,
                      record_filter |-> record_filter,
                      selected_fields |-> selected_fields]
             /\ pc = IF args = <<>> THEN "get_single_record" ELSE "query"
       /\ ctx = new_with_dynamic_schema(ConnectionInfo(None, "postgres", 32766), EmptyMap)
       /\ ret = NoRet
       /\ log = <<>>

\* get_single_record(conn, model, &filter, &selected_fields, ..).await
GetSingleRecord ==
    /\ pc = "get_single_record"
    /\ op.name = "update_one_with_selection"
    /\ \E result \in GetSingleRecordResults :
          /\ log' = Append(log, [event |-> "get_single_record",
                                 filter |-> build_update_one_filter(op.record_filter),
                                 selected_fields |-> op.selected_fields,
                                 result |-> result])
          /\ ret' = result
    /\ pc' = "done"
    /\ UNCHANGED <<nodes, edges, result_nodes, translated, called, ctx, op>>

\* conn.query(update.into()).await? and the record made of the first row.
QueryUpdate ==
    /\ pc = "query"
    /\ op.name = "update_one_with_selection"
    /\ \E result \in QueryResults :
          /\ log' = Append(log, [event |-> "query",
                                 update |-> update_one_with_selection(
                                               op.record_filter, op.args,
                                               op.selected_fields),
                                 result |-> result])
          /\ ret' = after_query(result, op.selected_fields)
    /\ pc' = "done"
    /\ UNCHANGED <<nodes, edges, result_nodes, translated, called, ctx, op>>

SpecUpdateOne ==
    InitUpdateOne /\ [][FilterSelectors \/ Execute \/ GetSingleRecord \/ QueryUpdate]_vars

(***************************************************************************)
(* SqlQueryBuilder::build_update.                                          *)
(***************************************************************************)
build_update(c, record_filter, args, selected_fields, columns, build_template) ==
    IF selected_fields.some
    THEN convert_query(update_one_with_selection(record_filter, args, selected_fields.v),
                       build_template)
    ELSE IF ~record_filter.selectors.some
    THEN Panic("should have record selectors for update")
    ELSE IF Len(update_many_from_ids_and_filter(columns, record_filter.selectors.v,
                                                args, c)) # 1
    THEN Panic("should generate exactly one update query")
    ELSE convert_query(update_many_from_ids_and_filter(columns, record_filter.selectors.v,
                                                       args, c)[1],
                       build_template)

SelectorCounts == {0, 1, 2, PARAMETER_LIMIT, PARAMETER_LIMIT + 1}
UpdateRecordFilters ==
    {RecordFilter([type |-> "Scalar", field |-> "title"], None)}
        \cup {RecordFilter([type |-> "Scalar", field |-> "title"],
                           Some([i \in 1..n |-> SelectionResult(i, placeholder)])) :
                 n \in SelectorCounts, placeholder \in BOOLEAN}

InitBuildUpdate ==
    /\ GraphIdle
    /\ pc = "sql"
    /\ \E record_filter \in UpdateRecordFilters, args \in UpdateArgs,
          selected_fields \in {None} \cup {Some(f) : f \in SelectedFields},
          n_columns \in 1..MaxColumns, build_template \in {"Ok", "Err"} :
             op = [name |-> "build_update",
                   record_filter |-> record_filter,
                   args |-> args,
                   selected_fields |-> selected_fields,
                   columns |-> [j \in 1..n_columns |-> j],
                   build_template |-> build_template]
    /\ ctx = new_with_dynamic_schema(ConnectionInfo(None, "mysql", 32766), EmptyMap)
    /\ ret = NoRet
    /\ log = <<>>

BuildUpdate ==
    /\ pc = "sql"
    /\ op.name = "build_update"
    /\ ret' = build_update(ctx, op.record_filter, op.args, op.selected_fields,
                           op.columns, op.build_template)
    /\ pc' = "done"
    /\ UNCHANGED <<nodes, edges, result_nodes, translated, called, ctx, op, log>>

SpecBuildUpdate == InitBuildUpdate /\ [][BuildUpdate]_vars

(***************************************************************************)
(* The Func closure of transform_node, run by the interpreter on an        *)
(* environment of parent bindings.                                         *)
(***************************************************************************)
MaxParents == 2
Reverse(s) == [i \in 1..Len(s) |-> s[Len(s) + 1 - i]]

EnvVarNotFound(parent_binding_name) ==
    [type |-> "EnvVarNotFound", name |-> parent_binding_name]
InterpretationError(parent_binding_name, cause) ==
    [type |-> "InterpretationError", binding |-> parent_binding_name, cause |-> cause]

\* env.get that yields an empty result for an absent name.
env_get_or_default(env, name) ==
    IF name \in DOMAIN env THEN Some(env[name]) ELSE Some(<<>>)

env_get(env, name) ==
    IF name \in DOMAIN env THEN Some(env[name]) ELSE None

\* A binding is the list of rows of the parent's result.  Row 0 lacks the
\* selected fields, row 3 cannot be assimilated into write arguments.
UnprojectableRow == 0
UnassimilableRow == 3

\* DataExpectation::check: the expectation of a non-empty result.
check(expectation, binding) ==
    IF binding = <<>> THEN Err([type |-> "DataExpectation"]) ELSE Ok(binding)

as_selection_results(binding, selection) ==
    IF \E i \in 1..Len(binding) : binding[i] = UnprojectableRow
    THEN Err([type |-> "Projection"]) ELSE Ok(binding)

assimilate(selection, row) ==
    IF row = UnassimilableRow THEN Err([type |-> "Assimilation"]) ELSE Ok(row)

node_input_field(node, field) == IF field \in DOMAIN node THEN node[field] ELSE <<>>
set_node_input_field(node, field, value) ==
    [k \in DOMAIN node \cup {field} |-> IF k = field THEN value ELSE node[k]]

\* The transformer of a ProjectedDataDependency: it needs a parent selection
\* and injects what it is given.
transformer(node, parent_selections) ==
    IF parent_selections = <<>> THEN Err([type |-> "Transformer"])
    ELSE Ok(set_node_input_field(node, "injected", parent_selections))

pop(rows) ==
    IF rows = <<>> THEN None ELSE Some(rows[Len(rows)])

\* expectation.map(check).transpose().map_err(Into::into).and(as_selection_results)
checked_selections(dependency, binding) ==
    IF dependency.expectation = "Some" /\ ~IsOk(check(dependency.expectation, binding))
    THEN check(dependency.expectation, binding)
    ELSE as_selection_results(binding, dependency)

NoPresentSelection == Panic("parent selection should be present after validation")

\* The match on the RowSink with Single taking the first row.
consume_first_row(node, consumer, parent_selections) ==
    CASE consumer = "Single" ->
            IF parent_selections = <<>> THEN NoPresentSelection
            ELSE Ok(set_node_input_field(node, "selectors", Head(parent_selections)))
      [] consumer = "All" ->
            Ok(set_node_input_field(node, "selectors", parent_selections))
      [] consumer = "AtMostOne" ->
            Ok(set_node_input_field(node, "selectors",
                                    SubSeq(parent_selections, 1,
                                           Min(1, Len(parent_selections)))))
      [] consumer = "ExactlyOne" ->
            IF ~pop(parent_selections).some THEN NoPresentSelection
            ELSE Ok(set_node_input_field(node, "selectors", <<pop(parent_selections).v>>))
      [] consumer = "ExactlyOneFilter" ->
            IF ~pop(parent_selections).some THEN NoPresentSelection
            ELSE Ok(set_node_input_field(node, "filter",
                                         [filter |-> pop(parent_selections).v]))
      [] consumer = "ExactlyOneWriteArgs" ->
            IF ~pop(parent_selections).some THEN NoPresentSelection
            ELSE IF ~IsOk(assimilate(consumer, pop(parent_selections).v))
            THEN assimilate(consumer, pop(parent_selections).v)
            ELSE Ok(set_node_input_field(node, "args",
                       Append(node_input_field(node, "args"),
                              assimilate(consumer, pop(parent_selections).v).val)))
      [] consumer = "Discard" -> Ok(node)
      [] OTHER -> Panic("unreachable")

\* The match on the RowSink.
consume(node, consumer, parent_selections) ==
    CASE consumer = "Single" ->
            IF ~pop(parent_selections).some THEN NoPresentSelection
            ELSE Ok(set_node_input_field(node, "selectors", pop(parent_selections).v))
      [] consumer = "All" ->
            Ok(set_node_input_field(node, "selectors", parent_selections))
      [] consumer = "AtMostOne" ->
            Ok(set_node_input_field(node, "selectors",
                                    SubSeq(parent_selections, 1,
                                           Min(1, Len(parent_selections)))))
      [] consumer = "ExactlyOne" ->
            IF ~pop(parent_selections).some THEN NoPresentSelection
            ELSE Ok(set_node_input_field(node, "selectors", <<pop(parent_selections).v>>))
      [] consumer = "ExactlyOneFilter" ->
            IF ~pop(parent_selections).some THEN NoPresentSelection
            ELSE Ok(set_node_input_field(node, "filter",
                                         [filter |-> pop(parent_selections).v]))
      [] consumer = "ExactlyOneWriteArgs" ->
            IF ~pop(parent_selections).some THEN NoPresentSelection
            ELSE IF ~IsOk(assimilate(consumer, pop(parent_selections).v))
            THEN assimilate(consumer, pop(parent_selections).v)
            ELSE Ok(set_node_input_field(node, "args",
                       Append(node_input_field(node, "args"),
                              assimilate(consumer, pop(parent_selections).v).val)))
      [] consumer = "Discard" -> Ok(node)
      [] OTHER -> Panic("unreachable")

\* The match on the dependency: res, or the error that leaves the fold's
\* closure through the question mark (escaped).
apply_dependency(node, dependency, binding) ==
    CASE dependency.dep = "ProjectedDataDependency" ->
            [escaped |-> FALSE,
             res |-> IF ~IsOk(checked_selections(dependency, binding))
                     THEN checked_selections(dependency, binding)
                     ELSE transformer(node, checked_selections(dependency, binding).val)]
      [] dependency.dep = "ProjectedDataSinkDependency" ->
            [escaped |-> FALSE,
             res |-> IF ~IsOk(checked_selections(dependency, binding))
                     THEN checked_selections(dependency, binding)
                     ELSE consume(node, dependency.sink,
                                  checked_selections(dependency, binding).val)]
      [] dependency.dep = "DataDependency" ->
            IF dependency.expectation = "Some"
               /\ ~IsOk(check(dependency.expectation, binding))
            THEN [escaped |-> TRUE, res |-> check(dependency.expectation, binding)]
            ELSE [escaped |-> FALSE, res |-> Ok(node)]
      [] OTHER -> [escaped |-> TRUE, res |-> Panic("unreachable")]

\* One step of the try_fold.
fold_step(node, parent_binding_name, dependency, binding) ==
    IF ~binding.some THEN Err(EnvVarNotFound(parent_binding_name))
    ELSE IF apply_dependency(node, dependency, binding.v).res.tag = "Err"
            /\ ~apply_dependency(node, dependency, binding.v).escaped
    THEN Err(InterpretationError(parent_binding_name,
                                 apply_dependency(node, dependency, binding.v).res.msg))
    ELSE apply_dependency(node, dependency, binding.v).res

\* try_fold over the dependencies: the result, the parent names looked up in
\* the environment and the parents whose dependency was applied (the match was
\* entered), in order.
RECURSIVE try_fold(_, _, _, _)
try_fold(parent_id_deps, node, env, applied) ==
    IF parent_id_deps = <<>>
    THEN [res |-> Ok(node), lookups |-> applied, applied |-> applied]
    ELSE IF ~IsOk(fold_step(node, Head(parent_id_deps).parent_binding_name,
                            Head(parent_id_deps).dependency,
                            env_get(env, Head(parent_id_deps).parent_binding_name)))
    THEN [res |-> fold_step(node, Head(parent_id_deps).parent_binding_name,
                            Head(parent_id_deps).dependency,
                            env_get(env, Head(parent_id_deps).parent_binding_name)),
          lookups |-> Append(applied, Head(parent_id_deps).parent_binding_name),
          applied |-> IF env_get(env, Head(parent_id_deps).parent_binding_name).some
                      THEN Append(applied, Head(parent_id_deps).parent_binding_name)
                      ELSE applied]
    ELSE try_fold(Tail(parent_id_deps),
                  fold_step(node, Head(parent_id_deps).parent_binding_name,
                            Head(parent_id_deps).dependency,
                            env_get(env, Head(parent_id_deps).parent_binding_name)).val,
                  env,
                  Append(applied, Head(parent_id_deps).parent_binding_name))

\* The closure folding the dependencies from the last one to the first.
TransformFunc_last_first(func, env) ==
    [func |-> func,
     env |-> env,
     res |-> IF IsOk(try_fold(Reverse(func.parent_id_deps), func.node, env, <<>>).res)
             THEN IntoExpr(func.into_expr,
                           try_fold(Reverse(func.parent_id_deps), func.node, env, <<>>).res.val)
             ELSE try_fold(Reverse(func.parent_id_deps), func.node, env, <<>>).res,
     lookups |-> try_fold(Reverse(func.parent_id_deps), func.node, env, <<>>).lookups,
     applied |-> try_fold(Reverse(func.parent_id_deps), func.node, env, <<>>).applied,
     into_expr |-> IF IsOk(try_fold(Reverse(func.parent_id_deps), func.node, env, <<>>).res)
                   THEN <<try_fold(Reverse(func.parent_id_deps), func.node, env, <<>>).res.val>>
                   ELSE <<>>]

\* The closure: the fold, then into_expr on the transformed node.  The field
\* into_expr lists the nodes into_expr was invoked on.
TransformFunc(func, env) ==
    [func |-> func,
     env |-> env,
     res |-> IF IsOk(try_fold(func.parent_id_deps, func.node, env, <<>>).res)
             THEN IntoExpr(func.into_expr,
                           try_fold(func.parent_id_deps, func.node, env, <<>>).res.val)
             ELSE try_fold(func.parent_id_deps, func.node, env, <<>>).res,
     lookups |-> try_fold(func.parent_id_deps, func.node, env, <<>>).lookups,
     applied |-> try_fold(func.parent_id_deps, func.node, env, <<>>).applied,
     into_expr |-> IF IsOk(try_fold(func.parent_id_deps, func.node, env, <<>>).res)
                   THEN <<try_fold(func.parent_id_deps, func.node, env, <<>>).res.val>>
                   ELSE <<>>]

RowSinks == {"Single", "All", "AtMostOne", "ExactlyOne", "ExactlyOneFilter",
             "ExactlyOneWriteArgs", "Discard"}
JoinDependencies ==
    {ExecutionOrder, Dependency("ProjectedDataSinkDependency", "ExactlyOne", "Some")}
        \cup {Dependency("ProjectedDataDependency", "None", e) : e \in {"None", "Some"}}
        \cup {Dependency("ProjectedDataSinkDependency", sink, "None") : sink \in RowSinks}
        \cup {Dependency("DataDependency", "Discard", e) : e \in {"None", "Some"}}
Bindings == {<<>>, <<1, 2>>, <<1, UnprojectableRow>>, <<1, UnassimilableRow>>}
JoinEnvs(k) == UNION {[names -> Bindings] : names \in SUBSET (1..k)}

\* Parents 1..k, all roots, with one edge each to the node k + 1.
InitJoin ==
    /\ \E k \in 1..MaxParents :
          \E deps \in [1..k -> JoinDependencies] :
             /\ nodes = [i \in 1..(k + 1) |-> Node("Query", i, <<>>, <<>>)]
             /\ edges = [i \in 1..k |-> [src |-> i, dst |-> k + 1, content |-> deps[i]]]
    /\ result_nodes = {}
    /\ pc = "build"
    /\ translated = NoOutcome
    /\ called = NoCall
    /\ SqlIdle

\* The interpreter calls an emitted transform_node closure.
CallTransform ==
    /\ pc = "translated"
    /\ IsOk(translated.res)
    /\ \E func \in Funcs(translated.res.val), env \in JoinEnvs(Len(nodes) - 1) :
          /\ func.fn = "transform_node"
          /\ called' = TransformFunc(func, env)
    /\ pc' = "called"
    /\ UNCHANGED <<nodes, edges, result_nodes, translated>>
    /\ UNCHANGED sql_vars

SpecJoin == InitJoin /\ [][Translate \/ CallTransform]_vars

(***************************************************************************)
(* DefaultValue, DefaultKind and ValueGenerator.                           *)
(***************************************************************************)
PrismaInt(v) == [type |-> "Int", int |-> v]
PrismaString(str) == [type |-> "String", str |-> str]
IsOneInt(args) == Len(args) = 1 /\ args[1].type = "Int"
AsU8(v) == v % 256

ValueGeneratorFn_new(name, args) ==
    CASE name = "ulid" -> Ok([fn |-> "Ulid"])
      [] name = "cuid" ->
            IF IsOneInt(args) THEN Ok([fn |-> "Cuid", version |-> AsU8(args[1].int)])
            ELSE Panic("unreachable")
      [] name = "uuid" ->
            IF IsOneInt(args) THEN Ok([fn |-> "Uuid", version |-> AsU8(args[1].int)])
            ELSE Panic("unreachable")
      [] name = "nanoid" ->
            IF IsOneInt(args) THEN Ok([fn |-> "Nanoid", length |-> Some(AsU8(args[1].int))])
            ELSE Ok([fn |-> "Nanoid", length |-> None])
      [] name = "now" -> Ok([fn |-> "Now"])
      [] name = "autoincrement" -> Ok([fn |-> "Autoincrement"])
      [] name = "sequence" -> Ok([fn |-> "Autoincrement"])
      [] name = "dbgenerated" -> Ok([fn |-> "DbGenerated"])
      [] name = "auto" -> Ok([fn |-> "Auto"])
      [] OTHER -> Err([type |-> "UnknownFunction", name |-> name])

ValueGenerator_new(name, args) ==
    IF IsOk(ValueGeneratorFn_new(name, args))
    THEN Ok([name |-> name, args |-> args,
             generator |-> ValueGeneratorFn_new(name, args).val])
    ELSE ValueGeneratorFn_new(name, args)

\* The constructors new_autoincrement .. new_nanoid: ValueGenerator::new(..).unwrap()
new_autoincrement == ValueGenerator_new("autoincrement", <<>>)
new_sequence(args) == ValueGenerator_new("sequence", args)
new_dbgenerated(description) ==
    IF \A i \in 1..Len(description) : description[i] = "NUL"
    THEN ValueGenerator_new("dbgenerated", <<>>)
    ELSE ValueGenerator_new("dbgenerated", <<PrismaString(description)>>)
new_auto == ValueGenerator_new("auto", <<>>)
new_now == ValueGenerator_new("now", <<>>)
new_ulid == ValueGenerator_new("ulid", <<>>)
new_cuid(version) == ValueGenerator_new("cuid", <<PrismaInt(version)>>)
new_uuid(version) == ValueGenerator_new("uuid", <<PrismaInt(version)>>)
new_nanoid(length) ==
    IF length.some THEN ValueGenerator_new("nanoid", <<PrismaInt(length.v)>>)
    ELSE ValueGenerator_new("nanoid", <<>>)

ValueGenerator_is_dbgenerated(g) == g.name = "dbgenerated"
ValueGenerator_is_autoincrement(g) == g.name = "autoincrement" \/ g.name = "sequence"
return_type(g) ==
    IF g.generator.fn \in {"Uuid", "Cuid", "Ulid", "Nanoid"} THEN Some("String")
    ELSE IF g.generator.fn = "Now" THEN Some("Date")
    ELSE None

Single(value) == [type |-> "Single", value |-> value]
Expression(generator) == [type |-> "Expression", generator |-> generator]
new_expression(generator) == [kind |-> Expression(generator), db_name |-> None]
new_single(value) == [kind |-> Single(value), db_name |-> None]

\* is_cuid that also answers for the other random identifiers.
is_cuid_or_nanoid(kind) ==
    kind.type = "Expression" /\ kind.generator.name \in {"cuid", "nanoid"}

is_autoincrement(kind) == kind.type = "Expression" /\ kind.generator.name = "autoincrement"
is_ulid(kind) == kind.type = "Expression" /\ kind.generator.name = "ulid"
is_cuid(kind) == kind.type = "Expression" /\ kind.generator.name = "cuid"
is_dbgenerated(kind) == kind.type = "Expression" /\ kind.generator.name = "dbgenerated"
is_nanoid(kind) == kind.type = "Expression" /\ kind.generator.name = "nanoid"
is_now(kind) == kind.type = "Expression" /\ kind.generator.name = "now"
is_uuid(kind) == kind.type = "Expression" /\ kind.generator.name = "uuid"

\* DefaultKind::get
get(kind) ==
    IF kind.type = "Single" THEN Some(kind.value)
    ELSE IF ValueGenerator_is_dbgenerated(kind.generator)
            \/ ValueGenerator_is_autoincrement(kind.generator)
    THEN None
    ELSE Some([type |-> "GeneratorCall",
               name |-> kind.generator.name,
               args |-> kind.generator.args,
               return_type |-> IF return_type(kind.generator).some
                               THEN return_type(kind.generator).v ELSE "Any"])

GeneratorNames == {"ulid", "cuid", "uuid", "nanoid", "now", "autoincrement",
                   "sequence", "dbgenerated", "auto", "random"}
IntArgs == {1, 2, 4, 7, 260}
GeneratorArgs == {<<>>, <<PrismaString(<<"t">>)>>} \cup {<<PrismaInt(v)>> : v \in IntArgs}
Descriptions == {<<>>, <<"NUL">>, <<"t">>, <<"NUL", "t">>}

\* The calls that build a default: [via, generator] with the constructor's result
\* (for new_single, the value itself).
DefaultCalls ==
    {[via |-> "new", name |-> name, args |-> args,
      generator |-> ValueGenerator_new(name, args)] :
         name \in GeneratorNames, args \in GeneratorArgs}
    \cup {[via |-> "new_sequence", name |-> "sequence", args |-> args,
           generator |-> new_sequence(args)] : args \in GeneratorArgs}
    \cup {[via |-> "new_dbgenerated", name |-> "dbgenerated", args |-> <<PrismaString(d)>>,
           generator |-> new_dbgenerated(d)] : d \in Descriptions}
    \cup {[via |-> "new_cuid", name |-> "cuid", args |-> <<PrismaInt(v)>>,
           generator |-> new_cuid(v)] : v \in IntArgs \ {260}}
    \cup {[via |-> "new_uuid", name |-> "uuid", args |-> <<PrismaInt(v)>>,
           generator |-> new_uuid(v)] : v \in IntArgs \ {260}}
    \cup {[via |-> "new_nanoid", name |-> "nanoid",
           args |-> IF l.some THEN <<PrismaInt(l.v)>> ELSE <<>>,
           generator |-> new_nanoid(l)] : l \in {None, Some(7)}}
    \cup {[via |-> "new_autoincrement", name |-> "autoincrement", args |-> <<>>,
           generator |-> new_autoincrement],
          [via |-> "new_auto", name |-> "auto", args |-> <<>>, generator |-> new_auto],
          [via |-> "new_now", name |-> "now", args |-> <<>>, generator |-> new_now],
          [via |-> "new_ulid", name |-> "ulid", args |-> <<>>, generator |-> new_ulid]}
    \cup {[via |-> "new_single", name |-> "", args |-> <<PrismaInt(v)>>,
           generator |-> Ok(PrismaInt(v))] : v \in IntArgs}

InitDefault ==
    /\ GraphIdle
    /\ pc = "sql"
    /\ ctx = NoContext
    /\ \E call \in DefaultCalls : op = [name |-> "default_value", call |-> call]
    /\ ret = NoRet
    /\ log = <<>>

\* DefaultValue::new_expression on the generator the call built, if it built one;
\* DefaultValue::new_single on a plain value.
NewExpression ==
    /\ pc = "sql"
    /\ op.name = "default_value"
    /\ IF IsOk(op.call.generator)
       THEN /\ ret' = IF op.call.via = "new_single"
                       THEN Ok(new_single(op.call.generator.val))
                       ELSE Ok(new_expression(op.call.generator.val))
            /\ pc' = "ready"
       ELSE /\ ret' = op.call.generator
            /\ pc' = "done"
    /\ UNCHANGED <<nodes, edges, result_nodes, translated, called, ctx, op, log>>

\* The predicates and get asked of the default.
Classify ==
    /\ pc = "ready"
    /\ op.name = "default_value"
    /\ log' = <<[is_autoincrement |-> is_autoincrement(ret.val.kind),
                 is_now |-> is_now(ret.val.kind),
                 is_uuid |-> is_uuid(ret.val.kind),
                 is_cuid |-> is_cuid(ret.val.kind),
                 is_ulid |-> is_ulid(ret.val.kind),
                 is_nanoid |-> is_nanoid(ret.val.kind),
                 is_dbgenerated |-> is_dbgenerated(ret.val.kind),
                 get |-> get(ret.val.kind)]>>
    /\ pc' = "done"
    /\ UNCHANGED <<nodes, edges, result_nodes, translated, called, ctx, op, ret>>

SpecDefault == InitDefault /\ [][NewExpression \/ Classify]_vars

(***************************************************************************)
(* The @id and @@id attributes of one model (parser-database).             *)
(***************************************************************************)
MaxAttributes == 3

ModelValidationError(message, attribute) ==
    [type |-> "ModelValidationError", message |-> message, attribute |-> attribute]
AttributeValidationError(message, attribute) ==
    [type |-> "AttributeValidationError", message |-> message, attribute |-> attribute]

\* primary_key_mapped_name: the map argument and the errors it pushes.
primary_key_mapped_name(attr, attribute_id) ==
    IF attr.map = Some("")
    THEN [mapped_name |-> None,
          errors |-> <<AttributeValidationError(
                         "The map argument cannot be an empty string.", attribute_id)>>]
    ELSE [mapped_name |-> attr.map, errors |-> <<>>]

\* The sort argument of @id.
sort_order(attr, attribute_id) ==
    CASE attr.sort = Some("Desc") -> [sort_order |-> Some("Desc"), errors |-> <<>>]
      [] attr.sort = Some("Asc") -> [sort_order |-> Some("Asc"), errors |-> <<>>]
      [] attr.sort = None -> [sort_order |-> None, errors |-> <<>>]
      [] OTHER ->
            [sort_order |-> None,
             errors |-> <<AttributeValidationError(
                            "The sort argument can only be Asc or Desc", attribute_id)>>]

IdAttribute(source_attribute, mapped_name, fields, source_field) ==
    [name |-> None, source_attribute |-> source_attribute, mapped_name |-> mapped_name,
     fields |-> fields, source_field |-> source_field, clustered |-> None]

\* field: @id on a scalar field.  m is [model_attributes, errors].
id_field(m, attr, attribute_id) ==
    IF m.model_attributes.primary_key.some
    THEN [m EXCEPT !.errors = Append(@, ModelValidationError(
              "At most one field must be marked as the id field with the @id attribute.",
              attribute_id))]
    ELSE [model_attributes |->
              [m.model_attributes EXCEPT !.primary_key =
                  Some(IdAttribute(attribute_id,
                                   primary_key_mapped_name(attr, attribute_id).mapped_name,
                                   <<[path |-> attr.field,
                                      sort_order |-> sort_order(attr, attribute_id).sort_order,
                                      length |-> None,
                                      operator_class |-> None]>>,
                                   Some(attr.field)))],
          errors |-> m.errors \o primary_key_mapped_name(attr, attribute_id).errors
                        \o sort_order(attr, attribute_id).errors]

\* The errors of @@id once its fields are resolved.
id_model_errors(m, attr, attribute_id) ==
    (IF attr.optional_fields /\ ~m.model_attributes.is_ignored
     THEN <<ModelValidationError(
               "The id definition refers to the optional fields. ID definitions must reference only required fields.",
               attribute_id)>>
     ELSE <<>>)
    \o (IF m.model_attributes.primary_key.some
        THEN <<ModelValidationError(
                  "Each model must have at most one id criteria. You can't have @id and @@id at the same time.",
                  attribute_id)>>
        ELSE <<>>)
    \o primary_key_mapped_name(attr, attribute_id).errors

\* model: @@id on the model.
id_model(m, attr, attribute_id) ==
    CASE attr.fields = Err("MissingArgument") ->
            [m EXCEPT !.errors = Append(@, AttributeValidationError(
                                               "Argument fields is missing.", attribute_id))]
      [] attr.fields = Err("AlreadyDealtWith") -> m
      [] attr.fields = Err("ProblematicFields") ->
            [m EXCEPT !.errors = Append(@, ModelValidationError(
                 "The multi field id declaration refers to the unknown fields.",
                 attribute_id))]
      [] OTHER ->
            [model_attributes |->
                 [m.model_attributes EXCEPT !.primary_key =
                     Some(IdAttribute(attribute_id,
                                      primary_key_mapped_name(attr, attribute_id).mapped_name,
                                      attr.fields.val, None))],
             errors |-> m.errors \o id_model_errors(m, attr, attribute_id)]

FieldAttributes ==
    {[kind |-> "@id", field |-> 1, sort |-> None, map |-> None],
     [kind |-> "@id", field |-> 2, sort |-> Some("Desc"), map |-> Some("pk")],
     [kind |-> "@id", field |-> 1, sort |-> Some("Up"), map |-> Some("")]}
ModelIdAttributes ==
    {[kind |-> "@@id", fields |-> Ok(<<1, 2>>), optional_fields |-> FALSE, map |-> None],
     [kind |-> "@@id", fields |-> Ok(<<2>>), optional_fields |-> TRUE, map |-> Some("pk")],
     [kind |-> "@@id", fields |-> Err("MissingArgument"), optional_fields |-> FALSE, map |-> None],
     [kind |-> "@@id", fields |-> Err("AlreadyDealtWith"), optional_fields |-> FALSE, map |-> None],
     [kind |-> "@@id", fields |-> Err("ProblematicFields"), optional_fields |-> FALSE,
      map |-> None]}

\* The attributes of a model in the order they are processed.
InitId ==
    /\ GraphIdle
    /\ pc = "attributes"
    /\ ctx = NoContext
    /\ \E n \in 1..MaxAttributes :
          \E attrs \in [1..n -> FieldAttributes \cup ModelIdAttributes] :
             op = [name |-> "id_attributes", attrs |-> attrs, next |-> 1]
    /\ \E is_ignored \in BOOLEAN :
          ret = [model_attributes |-> [primary_key |-> None, is_ignored |-> is_ignored],
                 errors |-> <<>>]
    /\ log = <<>>

\* One attribute is processed; log keeps the primary key stored after each.
VisitFieldId ==
    /\ pc = "attributes"
    /\ op.name = "id_attributes"
    /\ op.attrs[op.next].kind = "@id"
    /\ ret' = id_field(ret, op.attrs[op.next], op.next)
    /\ log' = Append(log, id_field(ret, op.attrs[op.next], op.next)
                              .model_attributes.primary_key)
    /\ op' = [op EXCEPT !.next = @ + 1]
    /\ pc' = IF op.next = Len(op.attrs) THEN "done" ELSE "attributes"
    /\ UNCHANGED <<nodes, edges, result_nodes, translated, called, ctx>>

VisitModelId ==
    /\ pc = "attributes"
    /\ op.name = "id_attributes"
    /\ op.attrs[op.next].kind = "@@id"
    /\ ret' = id_model(ret, op.attrs[op.next], op.next)
    /\ log' = Append(log, id_model(ret, op.attrs[op.next], op.next)
                              .model_attributes.primary_key)
    /\ op' = [op EXCEPT !.next = @ + 1]
    /\ pc' = IF op.next = Len(op.attrs) THEN "done" ELSE "attributes"
    /\ UNCHANGED <<nodes, edges, result_nodes, translated, called, ctx>>

SpecId == InitId /\ [][VisitFieldId \/ VisitModelId]_vars

(***************************************************************************)
(* Properties.  They read the graph translate was given (nodes, edges,     *)
(* result_nodes), what it returned and the history of its calls.           *)
(***************************************************************************)
Translated == pc # "build" /\ IsOk(translated.res)
Entries == Range(translated.g.built)
Folds == Range(translated.g.folded)
InputGraph == Graph(nodes, edges, result_nodes)

EntryOf(node) == CHOOSE b \in Entries : b.node = node
ExprOf(node) == EntryOf(node).expr
ChildNodes(pairs) == [i \in 1..Len(pairs) |-> pairs[i][2]]
Select(s, Keep(_)) ==
    LET ixs == Ascending({i \in 1..Len(s) : Keep(s[i])})
    IN [i \in 1..Len(ixs) |-> s[ixs[i]]]
InResultSubgraph(node) == subgraph_contains_result(InputGraph, node)
NotInResultSubgraph(node) == ~InResultSubgraph(node)
ResultChildren(pairs) == Select(ChildNodes(pairs), InResultSubgraph)
OtherChildren(pairs) == Select(ChildNodes(pairs), NotInResultSubgraph)
HasTransformerEdge(node) ==
    \E e \in 1..Len(edges) : edges[e].dst = node /\ IsTransformer(edges[e].content)

\* Every expression of an expression tree, those a closure holds included.
RECURSIVE SubExprs(_)
SubExprsOfEach(exprs) == UNION {SubExprs(exprs[i]) : i \in 1..Len(exprs)}
SubExprs(expr) ==
    {expr} \cup
    CASE expr.type = "Sequence" -> SubExprsOfEach(expr.seq)
      [] expr.type = "Let" ->
            UNION {SubExprs(expr.bindings[i].expr) : i \in 1..Len(expr.bindings)}
                \cup SubExprsOfEach(expr.expressions)
      [] expr.type = "If" -> SubExprsOfEach(expr.then) \cup SubExprsOfEach(expr.else_)
      [] expr.type = "Func" /\ expr.func.fn = "transform_node" ->
            (CASE expr.func.into_expr.for = "empty" ->
                     SubExprsOfEach(expr.func.into_expr.exprs)
               [] expr.func.into_expr.for = "if" ->
                     SubExprs(expr.func.into_expr.then_expr)
                         \cup SubExprsOfEach(expr.func.into_expr.else_expr)
                         \cup SubExprsOfEach(expr.func.into_expr.child_expressions)
               [] OTHER -> {})
      [] OTHER -> {}

\* The position in body of the expression that holds the expression of node.
PositionOf(body, node) ==
    CHOOSE i \in 1..Len(body) : ExprOf(node) \in SubExprs(body[i])
Placed(body, node) == \E i \in 1..Len(body) : ExprOf(node) \in SubExprs(body[i])

\* What a node's expression is once its transformers, if any, have run.
Emitted(expr) ==
    IF expr.type = "Func" /\ expr.func.fn = "transform_node"
    THEN IntoExpr(expr.func.into_expr, expr.func.node).val
    ELSE expr

\* C1: translate returns a Sequence that holds one expression per root node of
\* the graph, these being the roots' expressions in the order of root_nodes().
C1_RootsInOrder ==
    Translated =>
        LET roots == root_nodes(InputGraph)
        IN /\ translated.res.val.type = "Sequence"
           /\ Len(translated.res.val.seq) = Len(roots)
           /\ \A i \in 1..Len(roots) :
                 /\ Cardinality({b \in 1..Len(translated.g.built) :
                                    translated.g.built[b].node = roots[i]}) = 1
                 /\ translated.res.val.seq[i] = ExprOf(roots[i])

C1_Witness ==
    /\ Translated
    /\ Len(root_nodes(InputGraph)) >= 2
    /\ edges # <<>>

\* Non-result children come before result children in the body, in child-pair order.
SeparatedIn(b) ==
    LET others == OtherChildren(b.body_pairs)
        results == ResultChildren(b.body_pairs)
    IN /\ \A i \in 1..Len(others) : b.child_expressions[i] = ExprOf(others[i])
       /\ results # <<>> =>
             /\ Len(b.child_expressions) = Len(others) + 1
             /\ \A r \in Range(results) :
                   PositionOf(b.child_expressions, r) = Len(others) + 1
       /\ results = <<>> => Len(b.child_expressions) = Len(others)

\* The children's expressions make the body, in child-pair order.
InChildPairOrder(b) ==
    /\ Len(b.child_expressions) = Len(b.body_pairs)
    /\ \A i \in 1..Len(b.body_pairs) : b.child_expressions[i] = ExprOf(b.body_pairs[i][2])

\* C2 as stated: for a node of any kind with result children and non-result
\* children, every non-result child's expression is placed before every result
\* child's expression.
C2_AnyKindSeparated ==
    Translated =>
        \A b \in Entries :
            \A c \in Range(OtherChildren(b.body_pairs)),
               r \in Range(ResultChildren(b.body_pairs)) :
                  PositionOf(b.child_expressions, c) < PositionOf(b.child_expressions, r)

\* C2 as amended: the children that process_children compiles (those of a Query
\* or Return node, the non-branch children of an If node) are emitted non-result
\* children first, in child-pair order, then the fold of the result children;
\* the children of a Computation or Empty node are emitted in child-pair order.
C2_ProcessChildrenSeparates ==
    Translated =>
        \A b \in Entries :
            IF b.kind \in {"Query", "Return", "If"}
            THEN SeparatedIn(b)
            ELSE InChildPairOrder(b)

C2_Witness ==
    /\ Translated
    /\ \E b \in Entries :
          /\ b.kind \in {"Query", "Return", "If"}
          /\ Len(OtherChildren(b.body_pairs)) >= 2
          /\ ResultChildren(b.body_pairs) # <<>>
          /\ InResultSubgraph(b.body_pairs[1][2])

IsLetOf(expr, node) ==
    /\ expr.type = "Let"
    /\ Len(expr.bindings) = 1
    /\ expr.bindings[1].name = node

EndsWithGet(expr, node) ==
    /\ IsLetOf(expr, node)
    /\ expr.expressions # <<>>
    /\ expr.expressions[Len(expr.expressions)] = Get(node)

\* C3 as stated: a result node of any kind with a child expression is emitted as
\* a Let named with its id whose body ends with Get of that id.
C3_AnyKindEndsWithGet ==
    Translated =>
        \A b \in Entries :
            (b.is_result /\ b.child_expressions # <<>>) => EndsWithGet(b.expr, b.node)

\* C3 as amended: a result Query node with a child expression is emitted as a Let
\* named with its id whose body is the child expressions and then Get of that id;
\* a Return or Computation node with child expressions is emitted as a Let named
\* with its id whose body is the child expressions alone.
C3_QueryEndsWithGet ==
    Translated =>
        \A b \in Entries :
            b.child_expressions # <<>> =>
                /\ (b.kind = "Query" /\ b.is_result) =>
                      /\ EndsWithGet(b.expr, b.node)
                      /\ b.expr.expressions = Append(b.child_expressions, Get(b.node))
                /\ (b.kind \in {"Return", "Computation"} \/ ~b.is_result)
                      /\ b.kind \in {"Query", "Return", "Computation"} =>
                      /\ IsLetOf(b.expr, b.node)
                      /\ b.expr.expressions = b.child_expressions

C3_Witness ==
    /\ Translated
    /\ \E b \in Entries :
          /\ b.kind = "Query"
          /\ b.is_result
          /\ Len(b.child_expressions) >= 2
          /\ HasTransformerEdge(b.node)

\* C4 as stated: the base expression of a node is a Func exactly when an incoming
\* edge of the node carries a transformer.
C4_FuncIffTransformer ==
    Translated =>
        \A b \in Entries : (b.base.type = "Func") <=> HasTransformerEdge(b.node)

\* What into_expr makes of the node of entry b.
DirectBase(b) ==
    CASE b.kind = "Query" -> QueryExpr(nodes[b.node])
      [] b.kind = "Return" -> Return(nodes[b.node].data)
      [] b.kind = "Computation" -> Func([fn |-> "diff", node |-> nodes[b.node]])
      [] b.kind = "Empty" -> Sequence(b.child_expressions)
      [] b.kind = "If" -> Emitted(b.expr)

\* Scenario S1: a single result Query node without edges is translated to
\* Sequence { [Query] }.
S1Holds ==
    (pc # "build" /\ nodes = <<Node("Query", 1, <<>>, <<>>)>> /\ result_nodes = {1}) =>
        translated.res = Ok(Sequence(<<QueryExpr(nodes[1])>>))

\* C4 as amended: the base expression of a node is the Func that runs the
\* transformers exactly when an incoming edge of the node carries a transformer,
\* and it is the direct result of into_expr otherwise, which is itself a Func
\* (the difference closure) for a Computation node and no Func for the others;
\* scenario S1 holds.
C4_TransformFuncIffTransformer ==
    /\ S1Holds
    /\ Translated =>
        \A b \in Entries :
            /\ (b.base.type = "Func" /\ b.base.func.fn = "transform_node")
                  <=> HasTransformerEdge(b.node)
            /\ ~HasTransformerEdge(b.node) =>
                  /\ b.base = DirectBase(b)
                  /\ (b.base.type = "Func") <=> (b.kind = "Computation")
            /\ HasTransformerEdge(b.node) =>
                  /\ b.base.func.parent_id_deps # <<>>
                  /\ b.kind # "Empty" => b.base.func.node = nodes[b.node]

C4_Witness ==
    /\ Translated
    /\ \E b \in Entries : b.kind = "Computation" /\ ~HasTransformerEdge(b.node)
    /\ \E b \in Entries : b.kind = "Query" /\ HasTransformerEdge(b.node)
    /\ \E b \in Entries :
          /\ b.parent_edges # <<>>
          /\ ~HasTransformerEdge(b.node)

\* C5: translating a graph with an If node that has no Then edge returns an
\* error; it does not panic.
C5_NoThenIsAnError ==
    (pc # "build"
        /\ \E n \in 1..Len(nodes) :
              /\ nodes[n].kind = "If"
              /\ \A e \in 1..Len(edges) :
                    edges[e].src = n => edges[e].content.dep # "Then")
        => translated.res.tag = "Err"

\* C6: the If emitted for an If node has then = [the expression of its Then
\* child] and else_ = [the expression of its Else child], or [] without an Else
\* edge; without non-branch children the If is emitted bare, with them it is the
\* single binding, named with the node's id, of a Let whose body is the
\* compiled non-branch children.
BranchChild(b, dep) ==
    LET ixs == Ascending({i \in 1..Len(b.child_pairs) :
                             edges[b.child_pairs[i][1]].content.dep = dep})
    IN IF ixs = <<>> THEN <<>> ELSE <<ExprOf(b.child_pairs[ixs[Len(ixs)]][2])>>

IsBodyPair(pair) == edges[pair[1]].content.dep \notin {"Then", "Else"}

C6_IfShape ==
    Translated =>
        \A b \in Entries :
            b.kind = "If" =>
                LET emitted == Emitted(b.expr)
                    body == Select(b.child_pairs, IsBodyPair)
                    if_expr == IF body = <<>> THEN emitted ELSE emitted.bindings[1].expr
                IN /\ body = <<>> => emitted.type = "If"
                   /\ body # <<>> =>
                         /\ IsLetOf(emitted, b.node)
                         /\ b.body_pairs = body
                         /\ emitted.expressions = b.child_expressions
                         /\ SeparatedIn(b)
                   /\ if_expr.type = "If"
                   /\ if_expr.func = nodes[b.node]
                   /\ Len(if_expr.then) = 1
                   /\ if_expr.then = BranchChild(b, "Then")
                   /\ if_expr.else_ = BranchChild(b, "Else")

C6_Witness ==
    /\ Translated
    /\ \E b \in Entries :
          /\ b.kind = "If"
          /\ BranchChild(b, "Else") # <<>>
          /\ Select(b.child_pairs, IsBodyPair) # <<>>
          /\ Emitted(b.expr).type = "Let"

\* The fold that process_children made of the result children of child_pairs,
\* were they bound in the order names.
FirstNonEmptyOver(names) ==
    Let([i \in 1..Len(names) |-> Binding(names[i], ExprOf(names[i]))],
        <<GetFirstNonEmpty(names)>>)

RECURSIVE Chain(_)
Chain(children) ==
    Let(<<Binding(Head(children), ExprOf(Head(children)))>>,
        IF Len(children) = 1 THEN <<Get(Head(children))>>
        ELSE <<Chain(Tail(children))>>)

\* C8: with exactly one result node, the fold of a node's result children
\* c_1..c_m, in child-pair order, is the nested chain
\* Let{[c_1], [Let{[c_2], [ ... Let{[c_m], [Get c_m]} ]}]}.
C8_NestedChain ==
    (Translated /\ Cardinality(result_nodes) = 1) =>
        \A f \in Folds : f.expr = Chain(ResultChildren(f.child_pairs))

\* The graph of scenario S2: A -> B, B the result node.
IsS2 ==
    /\ Len(nodes) = 2
    /\ nodes[1].kind = "Query"
    /\ nodes[2].kind = "Query"
    /\ Len(edges) = 1
    /\ edges[1] = [src |-> 1, dst |-> 2,
                   content |-> Dependency("ProjectedDataSinkDependency", "ExactlyOne", "None")]
    /\ result_nodes = {2}

\* C9 as stated: the graph A -> B of S2 translates to
\* Sequence{[Let{[A = Query(A)], [Func]}]}, the Func of B being the whole body.
C9_BodyIsTheFunc ==
    (pc # "build" /\ IsS2) =>
        /\ IsOk(translated.res)
        /\ translated.res.val.type = "Sequence"
        /\ Len(translated.res.val.seq) = 1
        /\ translated.res.val.seq[1].type = "Let"
        /\ translated.res.val.seq[1].bindings = <<Binding(1, QueryExpr(nodes[1]))>>
        /\ Len(translated.res.val.seq[1].expressions) = 1
        /\ translated.res.val.seq[1].expressions[1].type = "Func"

\* C9 as amended: the graph A -> B of S2 translates to
\* Sequence{[Let{[A = Query(A)], [Let{[B = Func], [Get B]}]}]}: the body is the
\* fold of the result child B, which binds the Func of B and gets it.
C9_BodyIsTheFold ==
    (pc # "build" /\ IsS2) =>
        translated.res =
            Ok(Sequence(<<
                Let(<<Binding(1, QueryExpr(nodes[1]))>>,
                    <<Let(<<Binding(2, Func([fn |-> "transform_node",
                                             parent_id_deps |->
                                                 <<[parent_binding_name |-> 1,
                                                    dependency |-> edges[1].content]>>,
                                             node |-> nodes[2],
                                             into_expr |-> [for |-> "query"]]))>>,
                          <<Get(2)>>)>>)>>))

C9_Witness == pc = "translated" /\ IsS2 /\ translated.g.folded # <<>>

\* C10: the Func of a Computation node, called with any environment, yields
\* Return of the elements of left that are not in right (DiffLeftToRight) or of
\* right that are not in left (DiffRightToLeft), each once; left = [1,2,3] and
\* right = [2,3,4] give [1].
C10_Difference ==
    (pc = "called" /\ called.func.fn = "diff") =>
        LET node == called.func.node
            left == Range(node.left)
            right == Range(node.right)
        IN /\ node.kind \in ComputationKinds
           /\ IsOk(called.res)
           /\ called.res.val.type = "Return"
           /\ Range(called.res.val.result) =
                 (IF node.kind = "DiffLeftToRight" THEN left \ right ELSE right \ left)
           /\ Len(called.res.val.result) = Cardinality(Range(called.res.val.result))
           /\ (node.kind = "DiffLeftToRight" /\ node.left = S4Left /\ node.right = S4Right)
                 => called.res.val.result = <<1>>

C10_Witness ==
    /\ pc = "called"
    /\ called.func.fn = "diff"
    /\ called.func.node.kind = "DiffRightToLeft"
    /\ called.func.node.right = <<1, 1>>
    /\ called.func.node.left = <<2>>
    /\ called.res = Ok(Return(<<1>>))

\* The schema the model's table is to be qualified with, from the map.
ExpectedPrefix(map, model, default) ==
    IF ~model.schema_name.some THEN default
    ELSE IF DOMAIN map = {} THEN Some(model.schema_name.v)
    ELSE IF model.schema_name.v \in DOMAIN map THEN Some(map[model.schema_name.v])
    ELSE Some(model.schema_name.v)

S5Text == ObjectText(<<<<"public", Str("tenant_42")>>>>)

\* C11: db_name_with_schema qualifies the table of a model with origin schema o
\* by o when the DynamicSchema is empty, by map[o] when o is a key of it, by o
\* when target_schema(o) is None, and by the context's default schema when the
\* model declares no schema; {"public":"tenant_42"}, origin "public" and table
\* "users" give tenant_42.users.
C11_Qualified ==
    (pc = "done" /\ op.name = "as_table") =>
        /\ IsOk(ret)
        /\ ret.val.name = op.model.db_name
        /\ ret.val.schema = ExpectedPrefix(ctx.dynamic_schema, op.model,
                                           op.connection_info.schema_name)
        /\ (op.s = Some(S5Text) /\ op.model = Model(Some("public"), "users"))
              => ret.val = Table(Some("tenant_42"), "users")

C11_Witness ==
    /\ pc = "done"
    /\ op.s = Some(S5Text)
    /\ op.model = Model(Some("private"), "users")
    /\ ret = Ok(Table(Some("private"), "users"))

UnmappedOrigin ==
    /\ pc = "done"
    /\ op.name = "as_table"
    /\ DOMAIN ctx.dynamic_schema # {}
    /\ op.model.schema_name.some
    /\ op.model.schema_name.v \notin DOMAIN ctx.dynamic_schema

\* C12 as stated: with a non-empty DynamicSchema that has no key for the model's
\* origin schema, the table is emitted without a schema prefix or with the
\* context's default schema.
C12_UnmappedHasNoPrefix ==
    UnmappedOrigin =>
        \/ ret.val.schema = None
        \/ ret.val.schema = op.connection_info.schema_name

\* C12 as amended: with a non-empty DynamicSchema that has no key for the model's
\* origin schema, the table is emitted with the origin schema as its prefix.
C12_UnmappedKeepsOrigin ==
    UnmappedOrigin => ret = Ok(Table(Some(op.model.schema_name.v), op.model.db_name))

C12_Witness ==
    /\ UnmappedOrigin
    /\ op.connection_info.schema_name = Some("main")
    /\ ret.val.schema = Some("private")

\* C13: DynamicSchema::from_str never fails; without an input, and for a text
\* that is not a JSON object of string to string pairs, it returns the empty
\* mapping, and the Context built with it maps every origin schema to itself.
C13_MalformedIsIdentity ==
    op.name = "as_table" =>
        /\ pc # "panicked"
        /\ (pc \in {"ready", "done"}
               /\ (~op.s.some \/ op.s.v \notin StringMapTexts)) =>
              /\ ctx.dynamic_schema = EmptyMap
              /\ \A o \in SchemaNames \cup TargetNames : target_schema(ctx, o) = Some(o)
              /\ pc = "done" /\ op.model.schema_name.some =>
                    ret.val.schema = op.model.schema_name

C13_Witness ==
    /\ pc = "done"
    /\ op.s = Some(<<LBrace, Str("public"), Colon, Num, RBrace>>)
    /\ op.model = Model(Some("public"), "users")
    /\ ret = Ok(Table(Some("public"), "users"))

\* C14: in any interleaving of next_table_alias and next_join_alias calls of
\* one or several callers on one Context, no two calls receive the same number,
\* the numbers start at 0 and are drawn from one counter, and the numbers a
\* caller receives in successive calls are strictly increasing.
C14_AliasesUnique ==
    op.name = "aliases" =>
        /\ \A i, j \in 1..Len(log) :
              i < j =>
                 /\ log[i].alias.n # log[j].alias.n
                 /\ log[i].caller = log[j].caller => log[i].alias.n < log[j].alias.n
        /\ \A i \in 1..Len(log) : log[i].alias.n = i - 1
        /\ ctx.alias_counter = Len(log)

C14_Witness ==
    /\ op.name = "aliases"
    /\ Len(log) >= 4
    /\ log[1].caller = 1 /\ log[2].caller = 2 /\ log[3].caller = 1
    /\ log[1].alias.kind = "Table" /\ log[2].alias.kind = "Join"
    /\ log[3].alias.kind = "Join"

\* The bind parameters of a query, and the records its condition selects.
Sum(f) == LET RECURSIVE SumTo(_)
              SumTo(n) == IF n = 0 THEN 0 ELSE f[n] + SumTo(n - 1)
          IN SumTo(Len(f))
Parameters(query) ==
    IF query.conditions.type = "And" THEN Len(query.conditions.conditions)
    ELSE Sum([i \in 1..Len(query.conditions.values) |-> Len(query.conditions.values[i])])
RecordsOf(query) ==
    IF query.conditions.type = "And" THEN <<query.conditions.conditions[1].of>>
    ELSE [i \in 1..Len(query.conditions.values) |-> query.conditions.values[i][1][1]]
RECURSIVE Concat(_)
Concat(seqs) == IF seqs = <<>> THEN <<>> ELSE Head(seqs) \o Concat(Tail(seqs))

Chunked == pc = "done" /\ op.name = "chunked_conditions"

\* C15: every query chunked_conditions emits carries at most
\* min(PARAMETER_LIMIT, max_bind_values) bind parameters; 5000 one-column
\* selection results with max_bind_values = 900 give exactly 6 queries, each of
\* at most 900 parameters.
C15_ParametersWithinLimit ==
    Chunked =>
        /\ IsOk(ret)
        /\ \A q \in 1..Len(ret.val) :
              Parameters(ret.val[q]) <= Min(PARAMETER_LIMIT, ctx.max_bind_values.v)
        /\ (Len(op.records) = 5000 /\ Len(op.columns) = 1 /\ ctx.max_bind_values.v = 900)
              => Len(ret.val) = 6

\* C16: chunked_conditions partitions its records: the records of the emitted
\* queries, taken query after query, are the input records in their order, each
\* once; no query is without records, no records give no query, and together
\* the conditions select what one condition over the whole list selects.
C16_Partition ==
    Chunked =>
        /\ IsOk(ret)
        /\ Concat([q \in 1..Len(ret.val) |-> RecordsOf(ret.val[q])])
              = [i \in 1..Len(op.records) |-> op.records[i].id]
        /\ \A q \in 1..Len(ret.val) : RecordsOf(ret.val[q]) # <<>>
        /\ op.records = <<>> => ret.val = <<>>
        /\ op.records # <<>> =>
              UNION {Range(RecordsOf(ret.val[q])) : q \in 1..Len(ret.val)}
                 = Range(RecordsOf([conditions |->
                                       in_conditions(op.columns, op.records, ctx).val]))

C16_Witness ==
    /\ Chunked
    /\ Len(op.records) = 4001
    /\ op.records[1].placeholder
    /\ Len(ret.val) = 3
    /\ ret.val[3].conditions.type = "And"

NeedsDefault(field, args) == field.default_expression /\ field.db_name \notin DOMAIN args
Created == pc = "done" /\ op.name = "build_create_record" /\ IsOk(ret)

\* C17: build_create_record on MySQL gives select_defaults = Some exactly when a
\* field of the primary identifier needs its default materialized, and then
\* every recorded field placeholder is set in the write args of insert_query
\* under the field's database name; on the other families select_defaults and
\* last_insert_id_field are None and merge_values is empty.
C17_CreateRecordDefaults ==
    Created =>
        IF sql_family(ctx) = "mysql"
        THEN /\ ret.val.select_defaults.some
                  <=> \E i \in 1..Len(op.model.primary_identifier) :
                         NeedsDefault(op.model.primary_identifier[i], op.args)
             /\ ret.val.select_defaults.some =>
                  \A i \in 1..Len(ret.val.select_defaults.v.field_placeholders) :
                     LET fp == ret.val.select_defaults.v.field_placeholders[i]
                         insert_args == ret.val.insert_query.query.args
                     IN /\ fp.field.db_name \in DOMAIN insert_args
                        /\ insert_args[fp.field.db_name] = scalar_set(fp.ph)
                        /\ fp.ph = Placeholder(fp.field.name)
        ELSE /\ ret.val.select_defaults = None
             /\ ret.val.last_insert_id_field = None
             /\ ret.val.merge_values = <<>>

C17_Witness ==
    /\ Created
    /\ sql_family(ctx) = "mysql"
    /\ ret.val.select_defaults.some
    /\ Len(ret.val.select_defaults.v.field_placeholders) = 2
    /\ DOMAIN op.args # {}

Updating == op.name = "update_one_without_selection" /\ op.args # <<>>
Executes == {i \in 1..Len(log) : log[i].event = "execute"}

\* C18: update_one_without_selection with non-empty write args: the read of the
\* identifiers completes before the first UPDATE executes; the UPDATEs execute
\* one at a time in the order they were generated; the identifier record, with
\* the written identifier values merged in, is returned only after every UPDATE
\* succeeded; after a failed UPDATE no later one executes and its error is
\* returned.
C18_ReadThenUpdatesInOrder ==
    Updating =>
        /\ log # <<>> =>
              /\ log[1].event = "filter_selectors"
              /\ Executes = 2..Len(log)
              /\ Executes # {} => IsOk(log[1].result)
        /\ \A i \in Executes :
              /\ log[i].update =
                    update_many_from_ids_and_filter(op.columns, log[1].result.val,
                                                    op.args, ctx)[i - 1]
              /\ ~IsOk(log[i].result) => i = Len(log) /\ pc = "done" /\ ret = log[i].result
        /\ pc # "done" => ret = NoRet
        /\ (pc = "done" /\ IsOk(ret)) =>
              /\ \A i \in 1..Len(log) : IsOk(log[i].result)
              /\ Len(log) = 1 + Len(update_many_from_ids_and_filter(
                                        op.columns, log[1].result.val, op.args, ctx))
              /\ ret.val = IF log[1].result.val = <<>> THEN None
                           ELSE Some(SingleRecord(
                                   IF IdFieldName \in DOMAIN op.args
                                   THEN [log[1].result.val[1] EXCEPT
                                            !.id = op.args[IdFieldName].value]
                                   ELSE log[1].result.val[1]))

C18_Witness ==
    /\ Updating
    /\ pc = "done"
    /\ IsOk(ret)
    /\ Len(log) = 4
    /\ IdFieldName \in DOMAIN op.args

\* A failed UPDATE that ended the operation.
C18_FailureWitness ==
    /\ Updating
    /\ Len(log) = 3
    /\ ~IsOk(log[3].result)
    /\ Len(op.updates) = 3

TransformCalled == pc = "called" /\ called.func.fn = "transform_node"
IsEnvVarNotFound(res, name) ==
    res.tag = "Err" /\ res.msg.type = "EnvVarNotFound" /\ res.msg.name = name
Deps == called.func.parent_id_deps
Missing == {i \in 1..Len(Deps) : Deps[i].parent_binding_name \notin DOMAIN called.env}

\* C19: every error raised in the transform_node closure while a dependency
\* is applied (missing parent binding, failed expectation of any dependency
\* kind, failed projection, transformer or write-args assimilation) is
\* returned as InterpretationError naming the parent binding, with the cause.
C19_DependencyErrorsWrapped ==
    (TransformCalled /\ called.into_expr = <<>> /\ called.res.tag = "Err") =>
        /\ called.res.msg.type = "InterpretationError"
        /\ called.res.msg.binding = called.lookups[Len(called.lookups)]

FirstMissing == CHOOSE i \in Missing : \A j \in Missing : i <= j

\* C20 as stated: a closure run on an environment that lacks the binding of
\* one of its parents fails with EnvVarNotFound naming that parent (the first
\* such parent in collection order), applies no later dependency and does not
\* invoke into_expr.
C20_MissingBindingFails ==
    (TransformCalled /\ Missing # {}) =>
        /\ IsEnvVarNotFound(called.res, Deps[FirstMissing].parent_binding_name)
        /\ Len(called.applied) < FirstMissing
        /\ called.into_expr = <<>>

\* C20, amended: when the lookup of a parent binding is reached (every earlier
\* dependency was applied without error) and the binding is absent, the closure
\* fails with EnvVarNotFound naming that parent; whenever some parent binding
\* is absent the closure does not succeed, neither the dependency of an absent
\* binding nor a later one is applied, and into_expr is not invoked.
C20_ReachedMissingBindingFails ==
    TransformCalled =>
        \A i \in Missing :
            /\ Len(called.applied) < i
            /\ called.into_expr = <<>>
            /\ ~IsOk(called.res)
            /\ Len(called.lookups) = i =>
                  IsEnvVarNotFound(called.res, Deps[i].parent_binding_name)

C20_Witness ==
    /\ TransformCalled
    /\ Len(Deps) = 2
    /\ Missing = {2}
    /\ called.applied = <<Deps[1].parent_binding_name>>
    /\ IsEnvVarNotFound(called.res, Deps[2].parent_binding_name)

FailedTranslate == pc # "build" /\ ~IsOk(translated.res)
BuiltNodes == {translated.g.built[i].node : i \in 1..Len(translated.g.built)}
Unfinished == translated.g.visited \ BuiltNodes
RECURSIVE Reaches(_, _)
Reaches(a, b) ==
    \/ a = b
    \/ \E e \in 1..Len(edges) : edges[e].src = a /\ Reaches(edges[e].dst, b)
\* An If node none of whose Then edges leads to a direct child.
FailsToBuild(n) ==
    /\ nodes[n].kind = "If"
    /\ \A e \in 1..Len(edges) :
          (edges[e].src = n /\ edges[e].content.dep = "Then") =>
              \E other \in 1..Len(edges) :
                  /\ edges[other].dst = edges[e].dst
                  /\ edges[other].src # n
                  /\ edges[other].src \notin translated.g.visited

NoDuplicates(seq) == \A i, j \in 1..Len(seq) : seq[i] = seq[j] => i = j
\* The graph invariant on If nodes: at most one Then and at most one Else edge.
OneBranchEach ==
    \A e1, e2 \in 1..Len(edges) :
        (edges[e1].src = edges[e2].src /\ edges[e1].content.dep = edges[e2].content.dep
            /\ edges[e1].content.dep \in {"Then", "Else"}) => e1 = e2

Classified == pc = "done" /\ op.name = "default_value" /\ log # <<>>
PredicateOf ==
    [new_autoincrement |-> "is_autoincrement", new_now |-> "is_now",
     new_uuid |-> "is_uuid", new_cuid |-> "is_cuid", new_ulid |-> "is_ulid",
     new_nanoid |-> "is_nanoid", new_dbgenerated |-> "is_dbgenerated"]

\* C23: a default built from new_autoincrement, new_now, new_uuid(4|7),
\* new_cuid(1|2), new_ulid, new_nanoid or new_dbgenerated satisfies the
\* predicate of its own kind and none of the other six.
C23_OwnPredicateOnly ==
    (Classified /\ op.call.via \in DOMAIN PredicateOf) =>
        \A via \in DOMAIN PredicateOf :
            log[1][PredicateOf[via]] <=> via = op.call.via

C23_Witness ==
    /\ Classified
    /\ op.call.via = "new_nanoid"
    /\ log[1].is_nanoid
    /\ ~log[1].is_cuid

\* C30: for every expression default, DefaultKind::is_autoincrement answers as
\* ValueGenerator::is_autoincrement of its generator does, for every accepted
\* generator name, and DefaultKind::get is None exactly for the defaults for
\* which is_autoincrement or is_dbgenerated holds.
C30_AutoincrementAgrees ==
    Classified =>
        /\ ret.val.kind.type = "Expression" =>
              (log[1].is_autoincrement
                 <=> ValueGenerator_is_autoincrement(ret.val.kind.generator))
        /\ ~log[1].get.some <=> (log[1].is_autoincrement \/ log[1].is_dbgenerated)

\* The transformer edges of the closure's node, in the order of its
\* incoming-edge list.
TransformerEdges ==
    SelectSeq(incoming_edges(InputGraph, called.func.node.data),
              LAMBDA e : IsTransformer(edge_content(InputGraph, e)))
ParentOf(i) == edge_source(InputGraph, TransformerEdges[i])

\* The node after the first i transformer edges, each dependency applied to
\* the node the previous one produced; FoldOk(i) says that they all succeeded.
RECURSIVE NodeAfter(_)
NodeAfter(i) ==
    IF i = 0 THEN called.func.node
    ELSE IF ParentOf(i) \notin DOMAIN called.env THEN NodeAfter(i - 1)
    ELSE IF ~IsOk(apply_dependency(NodeAfter(i - 1),
                                   edge_content(InputGraph, TransformerEdges[i]),
                                   called.env[ParentOf(i)]).res)
    THEN NodeAfter(i - 1)
    ELSE apply_dependency(NodeAfter(i - 1),
                          edge_content(InputGraph, TransformerEdges[i]),
                          called.env[ParentOf(i)]).res.val
RECURSIVE FoldOk(_)
FoldOk(i) ==
    \/ i = 0
    \/ /\ FoldOk(i - 1)
       /\ ParentOf(i) \in DOMAIN called.env
       /\ IsOk(apply_dependency(NodeAfter(i - 1),
                                edge_content(InputGraph, TransformerEdges[i]),
                                called.env[ParentOf(i)]).res)

\* C24: a run of the closure applies the dependencies in the order of the
\* node's incoming-edge list, non-transformer edges skipped, each to the node
\* the previous one produced; into_expr is invoked at most once, and when
\* every dependency succeeds exactly once, on the node the last one produced.
C24_FoldInEdgeOrder ==
    TransformCalled =>
        /\ Len(called.applied) <= Len(TransformerEdges)
        /\ \A i \in 1..Len(called.applied) :
              /\ called.applied[i] = ParentOf(i)
              /\ i < Len(called.applied) => FoldOk(i)
        /\ Len(called.into_expr) <= 1
        /\ FoldOk(Len(TransformerEdges)) <=> called.into_expr # <<>>
        /\ called.into_expr # <<>> =>
              /\ Len(called.applied) = Len(TransformerEdges)
              /\ called.into_expr = <<NodeAfter(Len(TransformerEdges))>>
              /\ called.res = IntoExpr(called.func.into_expr,
                                       NodeAfter(Len(TransformerEdges)))

C24_Witness ==
    /\ TransformCalled
    /\ Len(TransformerEdges) = 2
    /\ edge_content(InputGraph, TransformerEdges[1]).sink = "All"
    /\ edge_content(InputGraph, TransformerEdges[2]).sink = "Single"
    /\ called.into_expr # <<>>
    /\ called.into_expr[1].selectors = 2

\* The transformer edges into the last node of the graph, the only node with
\* parents in the closure runs, and what translate has to capture of them.
JoinNode == Len(nodes)
JoinTransformerEdges ==
    SelectSeq(incoming_edges(InputGraph, JoinNode),
              LAMBDA e : IsTransformer(edge_content(InputGraph, e)))
Captured ==
    [i \in 1..Len(JoinTransformerEdges) |->
        [parent_binding_name |-> edge_source(InputGraph, JoinTransformerEdges[i]),
         dependency |-> edge_content(InputGraph, JoinTransformerEdges[i])]]

\* C25: translate of a node with at least one transformer edge returns Ok
\* with a Func that holds the untouched node and the captured dependencies;
\* no dependency and no into_expr has run until the Func is called with an
\* environment, whatever they return then.
C25_TranslateOnlyCaptures ==
    (pc # "build" /\ JoinTransformerEdges # <<>>) =>
        /\ IsOk(translated.res)
        /\ \E func \in Funcs(translated.res.val) :
              /\ func.fn = "transform_node"
              /\ func.node = nodes[JoinNode]
              /\ func.parent_id_deps = Captured
        /\ pc = "translated" => called = NoCall
        /\ pc = "called" => called.func.node = nodes[JoinNode]

C25_Witness ==
    /\ TransformCalled
    /\ JoinTransformerEdges # <<>>
    /\ IsOk(translated.res)
    /\ called.res.tag = "Err"
    /\ called.into_expr = <<>>

\* A closure with one transformer edge, a ProjectedDataSinkDependency, run on
\* an environment that binds the parent to a non-empty list of rows that all
\* project to selection results.
SinkApplied ==
    /\ TransformCalled
    /\ Len(Deps) = 1
    /\ Deps[1].dependency.dep = "ProjectedDataSinkDependency"
    /\ Deps[1].parent_binding_name \in DOMAIN called.env
    /\ called.env[Deps[1].parent_binding_name] # <<>>
    /\ IsOk(as_selection_results(called.env[Deps[1].parent_binding_name], Deps[1].dependency))
Rows == called.env[Deps[1].parent_binding_name]
OnlyFieldSet(before, after, field, value) ==
    /\ DOMAIN after = DOMAIN before \cup {field}
    /\ after[field] = value
    /\ \A k \in DOMAIN before \ {field} : after[k] = before[k]

\* C26: on a non-empty list of parent rows r_1..r_n, Single sets the field to
\* r_n, All to the whole list, AtMostOne to <<r_1>>, ExactlyOne to a
\* one-element list, Discard leaves the node unchanged, and no other field of
\* the node is modified.
C26_SinkWrites ==
    (SinkApplied /\ Deps[1].dependency.sink
                       \in {"Single", "All", "AtMostOne", "ExactlyOne", "Discard"}) =>
        /\ Len(called.into_expr) = 1
        /\ Deps[1].dependency.sink = "Single" =>
              OnlyFieldSet(called.func.node, called.into_expr[1], "selectors",
                           Rows[Len(Rows)])
        /\ Deps[1].dependency.sink = "All" =>
              OnlyFieldSet(called.func.node, called.into_expr[1], "selectors", Rows)
        /\ Deps[1].dependency.sink = "AtMostOne" =>
              OnlyFieldSet(called.func.node, called.into_expr[1], "selectors",
                           <<Rows[1]>>)
        /\ Deps[1].dependency.sink = "ExactlyOne" =>
              /\ Len(called.into_expr[1].selectors) = 1
              /\ OnlyFieldSet(called.func.node, called.into_expr[1], "selectors",
                              called.into_expr[1].selectors)
        /\ Deps[1].dependency.sink = "Discard" =>
              called.into_expr[1] = called.func.node

C26_Witness ==
    /\ SinkApplied
    /\ Deps[1].dependency.sink = "Single"
    /\ Len(Rows) = 2
    /\ Rows[1] # Rows[2]
    /\ called.into_expr[1].selectors = Rows[2]

NothingToUpdate ==
    op.name \in {"update_one_with_selection", "update_one_without_selection"}
        /\ op.args = <<>>

\* C27: with empty write args neither function executes an UPDATE;
\* update_one_with_selection only reads the single record by the filter of
\* build_update_one_filter and returns what the read returned,
\* update_one_without_selection only reads the identifiers and returns the
\* first of them as a record, or None.
C27_EmptyArgsOnlyRead ==
    NothingToUpdate =>
        /\ \A i \in 1..Len(log) : log[i].event \notin {"execute", "query"}
        /\ pc = "done" =>
              /\ Len(log) = 1
              /\ op.name = "update_one_with_selection" =>
                    /\ log[1].event = "get_single_record"
                    /\ log[1].filter = build_update_one_filter(op.record_filter)
                    /\ ret = log[1].result
              /\ op.name = "update_one_without_selection" =>
                    /\ log[1].event = "filter_selectors"
                    /\ IsOk(log[1].result) =>
                          ret = Ok(IF log[1].result.val = <<>> THEN None
                                   ELSE Some(SingleRecord(log[1].result.val[1])))
                    /\ ~IsOk(log[1].result) => ret = log[1].result

C27_Witness ==
    /\ NothingToUpdate
    /\ pc = "done"
    /\ op.name = "update_one_without_selection"
    /\ IsOk(ret)
    /\ ret.val.some
    /\ Len(log[1].result.val) > PARAMETER_LIMIT

\* The read of update_one_with_selection that found a record.
C27_WithSelectionWitness ==
    /\ NothingToUpdate
    /\ pc = "done"
    /\ op.name = "update_one_with_selection"
    /\ op.record_filter.selectors.some
    /\ IsOk(ret)
    /\ ret.val.some

IdAttributes == op.name = "id_attributes"
ErrorsOf(attribute_id) ==
    {i \in 1..Len(ret.errors) : ret.errors[i].attribute = attribute_id}

\* C28: once an @id or @@id has stored the primary key, every later @id or
\* @@id that is processed leaves the stored primary key unchanged and pushes a
\* validation error, so the primary key is the one of the first attribute.
C28_FirstIdWins ==
    IdAttributes =>
        \A i \in 2..Len(log) :
            log[i - 1].some =>
                /\ log[i] = log[i - 1]
                /\ (op.attrs[i].kind = "@id" \/ IsOk(op.attrs[i].fields)) =>
                      ErrorsOf(i) # {}

\* C29: build_update without selected fields, on a record filter that carries
\* selectors, does not panic and returns one DbQuery when the template builds,
\* whatever the number of selectors.
C29_BuildUpdateOneQuery ==
    (pc = "done" /\ op.name = "build_update" /\ ~op.selected_fields.some
        /\ op.record_filter.selectors.some) =>
        /\ ret.tag # "Panic"
        /\ op.build_template = "Ok" =>
              /\ IsOk(ret)
              /\ ret.val.type = "TemplateSql"
              /\ ret.val.query.type = "Update"

====
